---- MODULE Spec2Model ----
(***************************************************************************)
(* Pass A of tmppy (ir3_to_ir2.py): lowering of the front-end IR (ir3) to  *)
(* ir2.  The IR trees are records with a "kind" field; the Python writers  *)
(* (FunWriter, StmtWriter) are records threaded through the lowering       *)
(* operators, which return the generated variable together with the        *)
(* updated writer.                                                         *)
(***************************************************************************)
EXTENDS Integers, Sequences, FiniteSets, TLC

VARIABLES module, pc, fun_index, fun_writer, toplevel_stmts, output, symbol_table, ir_function_defns

vars == <<module, pc, fun_index, fun_writer, toplevel_stmts, output, symbol_table, ir_function_defns>>

(* The state of the front end (sema.py), which the later passes leave alone. *)
sema_vars == <<symbol_table, ir_function_defns>>

(***************************************************************************)
(* Generic helpers.                                                        *)
(***************************************************************************)
None == [kind |-> "None"]

IsNone(v) == v.kind = "None"

Range(s) == {s[i] : i \in 1..Len(s)}

Last(s) == s[Len(s)]

(* An exception on its way up the call stack: what a call returns in place  *)
(* of its value when a raise statement ran in it.                           *)
RaisedError(error, at) == [kind |-> "Raised", error |-> error, at |-> at]

IsRaised(node) == node.kind = "Raised"

HasRaisedIn(nodes) == \E i \in 1..Len(nodes) : IsRaised(nodes[i])

FirstRaised(nodes) == nodes[CHOOSE i \in 1..Len(nodes) : IsRaised(nodes[i]) /\ \A j \in 1..(i - 1) : ~IsRaised(nodes[j])]

(* A node built from children computed in order: the first exception among  *)
(* the children, or the node.                                               *)
Build(children, node) == IF HasRaisedIn(children) THEN FirstRaised(children) ELSE node

(* An object of a class the pass has no case for. *)
Unrecognized == [kind |-> "Unrecognized"]

NotImplementedError == "NotImplementedError"

AttributeError == "AttributeError"

(* Bind(value, LAMBDA v : body): body with v naming value.  The value (a    *)
(* record or a sequence) is computed first and once, as a Python statement  *)
(* computes what it assigns before the next statement runs; an exception    *)
(* raised while computing it ends the computation.                          *)
RaisedFields == ToString(DOMAIN RaisedError("", ""))

Bind(value, Body(_)) == IF ToString(DOMAIN value) = RaisedFields THEN value ELSE Body(value)

(* The value of a call, of any class, is an exception on its way up. *)
EndedRaising(value) == ToString(DOMAIN value) = RaisedFields

(***************************************************************************)
(* Types shared by ir3 and ir2 (ir2 has no SetType and adds ErrorOrVoid).  *)
(***************************************************************************)
BoolType == [kind |-> "BoolType"]

IntType == [kind |-> "IntType"]

TypeType == [kind |-> "TypeType"]

BottomType == [kind |-> "BottomType"]

ErrorOrVoidType == [kind |-> "ErrorOrVoidType"]

ListType(elem_type) == [kind |-> "ListType", elem_type |-> elem_type]

SetType(elem_type) == [kind |-> "SetType", elem_type |-> elem_type]

FunctionType(argtypes, returns) == [kind |-> "FunctionType", argtypes |-> argtypes, returns |-> returns]

CustomTypeArgDecl(name, type) == [name |-> name, type |-> type]

CustomType(name, arg_types) == [kind |-> "CustomType", name |-> name, arg_types |-> arg_types]

(***************************************************************************)
(* ir2 nodes, as ir3_to_ir2.py constructs them.                            *)
(***************************************************************************)
VarReference(type, name, is_global_function, is_function_that_may_throw) ==
    [kind |-> "VarReference", type |-> type, name |-> name,
     is_global_function |-> is_global_function,
     is_function_that_may_throw |-> is_function_that_may_throw]

FunctionArgDecl(type, name) == [type |-> type, name |-> name]

FunctionDefn(name, description, args, body, return_type) ==
    [kind |-> "FunctionDefn", name |-> name, description |-> description,
     args |-> args, body |-> body, return_type |-> return_type]

Assignment(lhs, lhs2, rhs) == [kind |-> "Assignment", lhs |-> lhs, lhs2 |-> lhs2, rhs |-> rhs]

UnpackingAssignment(lhs_list, rhs, error_message) ==
    [kind |-> "UnpackingAssignment", lhs_list |-> lhs_list, rhs |-> rhs, error_message |-> error_message]

ReturnStmt(result, error) == [kind |-> "ReturnStmt", result |-> result, error |-> error]

IfStmt(cond, if_stmts, else_stmts) ==
    [kind |-> "IfStmt", cond |-> cond, if_stmts |-> if_stmts, else_stmts |-> else_stmts]

AssertStmt(var, message) == [kind |-> "Assert", var |-> var, message |-> message]

BoolLiteral(value) == [kind |-> "BoolLiteral", type |-> BoolType, value |-> value]

IntLiteral(value) == [kind |-> "IntLiteral", type |-> IntType, ivalue |-> value]

TypeLiteral(cpp_type, args) == [kind |-> "TypeLiteral", type |-> TypeType, cpp_type |-> cpp_type, args |-> args]

ListExpr(elem_type, elems) == [kind |-> "ListExpr", type |-> ListType(elem_type), elems |-> elems]

AddToSetExpr(set_expr, elem_expr) ==
    [kind |-> "AddToSetExpr", type |-> set_expr.type, set_expr |-> set_expr, elem_expr |-> elem_expr]

FunctionCall(fun, args) == [kind |-> "FunctionCall", type |-> fun.type.returns, fun |-> fun, args |-> args]

MatchCase(type_patterns, matched_var_names, expr) ==
    [type_patterns |-> type_patterns, matched_var_names |-> matched_var_names, expr |-> expr]

MatchExpr(matched_vars, match_cases) ==
    [kind |-> "MatchExpr", type |-> match_cases[1].expr.type,
     matched_vars |-> matched_vars, match_cases |-> match_cases]

EqualityComparison(lhs, rhs) == [kind |-> "EqualityComparison", type |-> BoolType, lhs |-> lhs, rhs |-> rhs]

SetEqualityComparison(lhs, rhs) == [kind |-> "SetEqualityComparison", type |-> BoolType, lhs |-> lhs, rhs |-> rhs]

AttributeAccessExpr(var, attribute_name, type) ==
    [kind |-> "AttributeAccessExpr", type |-> type, var |-> var, attribute_name |-> attribute_name]

IsInstanceExpr(var, checked_type) ==
    [kind |-> "IsInstanceExpr", type |-> BoolType, var |-> var, checked_type |-> checked_type]

SafeUncheckedCast(var, type) == [kind |-> "SafeUncheckedCast", type |-> type, var |-> var]

UnaryExpr(kind, type, var) == [kind |-> kind, type |-> type, var |-> var]

BinaryExpr(kind, type, lhs, rhs, op) == [kind |-> kind, type |-> type, lhs |-> lhs, rhs |-> rhs, op |-> op]

ListComprehensionExpr(list_var, loop_var, result_elem_expr) ==
    [kind |-> "ListComprehensionExpr", type |-> ListType(result_elem_expr.type),
     list_var |-> list_var, loop_var |-> loop_var, result_elem_expr |-> result_elem_expr]

CheckIfErrorDefn(error_types_and_messages) ==
    [kind |-> "CheckIfErrorDefn", error_types_and_messages |-> error_types_and_messages]

(***************************************************************************)
(* ir2 unary and binary node kinds that ir3_to_ir2.py builds from a single *)
(* already-lowered operand or a pair of them.                              *)
(***************************************************************************)
NotExpr(var) == UnaryExpr("NotExpr", BoolType, var)

UnaryMinusExpr(var) == UnaryExpr("UnaryMinusExpr", IntType, var)

IntListSumExpr(var) == UnaryExpr("IntListSumExpr", IntType, var)

BoolListAllExpr(var) == UnaryExpr("BoolListAllExpr", BoolType, var)

BoolListAnyExpr(var) == UnaryExpr("BoolListAnyExpr", BoolType, var)

SetToListExpr(var) == UnaryExpr("SetToListExpr", var.type, var)

ListToSetExpr(var) == UnaryExpr("ListToSetExpr", var.type, var)

IntComparisonExpr(lhs, rhs, op) == BinaryExpr("IntComparisonExpr", BoolType, lhs, rhs, op)

IntBinaryOpExpr(lhs, rhs, op) == BinaryExpr("IntBinaryOpExpr", IntType, lhs, rhs, op)

ListConcatExpr(lhs, rhs) == BinaryExpr("ListConcatExpr", lhs.type, lhs, rhs, "+")

(***************************************************************************)
(* ir3 (front-end IR) nodes, with the fields ir3_to_ir2.py reads.          *)
(***************************************************************************)
ir3_VarReference(type, name, is_global_function, is_function_that_may_throw) ==
    [kind |-> "VarReference", type |-> type, name |-> name,
     is_global_function |-> is_global_function,
     is_function_that_may_throw |-> is_function_that_may_throw]

ir3_BoolLiteral(value) == [kind |-> "BoolLiteral", type |-> BoolType, value |-> value]

ir3_IntLiteral(value) == [kind |-> "IntLiteral", type |-> IntType, ivalue |-> value]

ir3_TypeLiteral(cpp_type, arg_exprs) ==
    [kind |-> "TypeLiteral", type |-> TypeType, cpp_type |-> cpp_type, arg_exprs |-> arg_exprs]

ir3_ListExpr(elem_type, elem_exprs) ==
    [kind |-> "ListExpr", type |-> ListType(elem_type), elem_type |-> elem_type, elem_exprs |-> elem_exprs]

ir3_SetExpr(elem_type, elem_exprs) ==
    [kind |-> "SetExpr", type |-> SetType(elem_type), elem_type |-> elem_type, elem_exprs |-> elem_exprs]

ir3_FunctionCall(fun_expr, args) ==
    [kind |-> "FunctionCall", type |-> fun_expr.type.returns, fun_expr |-> fun_expr, args |-> args]

ir3_MatchCase(type_patterns, matched_var_names, expr) ==
    [type_patterns |-> type_patterns, matched_var_names |-> matched_var_names, expr |-> expr]

ir3_MatchExpr(matched_exprs, match_cases) ==
    [kind |-> "MatchExpr", type |-> match_cases[1].expr.type,
     matched_exprs |-> matched_exprs, match_cases |-> match_cases]

ir3_EqualityComparison(lhs, rhs) == [kind |-> "EqualityComparison", type |-> BoolType, lhs |-> lhs, rhs |-> rhs]

ir3_AttributeAccessExpr(expr, attribute_name, type) ==
    [kind |-> "AttributeAccessExpr", type |-> type, expr |-> expr, attribute_name |-> attribute_name]

ir3_AndExpr(lhs, rhs) == [kind |-> "AndExpr", type |-> BoolType, lhs |-> lhs, rhs |-> rhs]

ir3_OrExpr(lhs, rhs) == [kind |-> "OrExpr", type |-> BoolType, lhs |-> lhs, rhs |-> rhs]

ir3_Unary(kind, type, expr) == [kind |-> kind, type |-> type, expr |-> expr]

ir3_Binary(kind, type, lhs, rhs, op) == [kind |-> kind, type |-> type, lhs |-> lhs, rhs |-> rhs, op |-> op]

ir3_ListComprehension(list_expr, loop_var, result_elem_expr) ==
    [kind |-> "ListComprehension", type |-> ListType(result_elem_expr.type),
     list_expr |-> list_expr, loop_var |-> loop_var, result_elem_expr |-> result_elem_expr]

ir3_SetComprehension(set_expr, loop_var, result_elem_expr) ==
    [kind |-> "SetComprehension", type |-> SetType(result_elem_expr.type),
     set_expr |-> set_expr, loop_var |-> loop_var, result_elem_expr |-> result_elem_expr]

ir3_Assignment(lhs, rhs) == [kind |-> "Assignment", lhs |-> lhs, rhs |-> rhs]

ir3_UnpackingAssignment(lhs_list, rhs, error_message) ==
    [kind |-> "UnpackingAssignment", lhs_list |-> lhs_list, rhs |-> rhs, error_message |-> error_message]

ir3_ReturnStmt(expr) == [kind |-> "ReturnStmt", expr |-> expr]

ir3_RaiseStmt(expr) == [kind |-> "RaiseStmt", expr |-> expr]

ir3_Assert(expr, message) == [kind |-> "Assert", expr |-> expr, message |-> message]

ir3_IfStmt(cond_expr, if_stmts, else_stmts) ==
    [kind |-> "IfStmt", cond_expr |-> cond_expr, if_stmts |-> if_stmts, else_stmts |-> else_stmts]

ir3_TryExcept(try_body, caught_exception_type, caught_exception_name, except_body) ==
    [kind |-> "TryExcept", try_body |-> try_body,
     caught_exception_type |-> caught_exception_type,
     caught_exception_name |-> caught_exception_name,
     except_body |-> except_body]

ir3_FunctionDefn(name, args, body, return_type) ==
    [kind |-> "FunctionDefn", name |-> name, args |-> args, body |-> body, return_type |-> return_type]

ir3_CustomType(name, arg_types, is_exception_class, exception_message) ==
    [kind |-> "CustomType", name |-> name, arg_types |-> arg_types,
     is_exception_class |-> is_exception_class, exception_message |-> exception_message]

ir3_Module(custom_types, function_defns, assertions) ==
    [custom_types |-> custom_types, function_defns |-> function_defns, assertions |-> assertions]

(***************************************************************************)
(* The return-type analysis of ir3 statements that try_except_stmt_to_ir2  *)
(* consults: does control always leave the function at this statement?     *)
(***************************************************************************)
RECURSIVE always_returns(_)
always_returns(stmt) ==
    CASE stmt.kind \in {"ReturnStmt", "RaiseStmt"} -> TRUE
      [] stmt.kind = "IfStmt" ->
            /\ stmt.if_stmts # <<>> /\ always_returns(Last(stmt.if_stmts))
            /\ stmt.else_stmts # <<>> /\ always_returns(Last(stmt.else_stmts))
      [] stmt.kind = "TryExcept" ->
            /\ stmt.try_body # <<>> /\ always_returns(Last(stmt.try_body))
            /\ stmt.except_body # <<>> /\ always_returns(Last(stmt.except_body))
      [] OTHER -> FALSE

(***************************************************************************)
(* Free variables of ir2 code (ir2.get_unique_free_variables_in_stmts).    *)
(***************************************************************************)
RECURSIVE UniqueByName(_, _)
UniqueByName(refs, seen) ==
    IF refs = <<>> THEN <<>>
    ELSE IF Head(refs).name \in seen THEN UniqueByName(Tail(refs), seen)
    ELSE <<Head(refs)>> \o UniqueByName(Tail(refs), seen \cup {Head(refs).name})

NonGlobal(refs) == SelectSeq(refs, LAMBDA v : ~v.is_global_function)

NotNamed(refs, names) == SelectSeq(refs, LAMBDA v : v.name \notin names)

RECURSIVE MatchCasesFreeVars(_)
MatchCasesFreeVars(cases) ==
    IF cases = <<>> THEN <<>>
    ELSE NotNamed(NonGlobal(<<Head(cases).expr.fun>> \o Head(cases).expr.args),
                  Range(Head(cases).matched_var_names))
         \o MatchCasesFreeVars(Tail(cases))

get_free_variables_in_expr(expr) ==
    CASE expr.kind = "VarReference" -> NonGlobal(<<expr>>)
      [] expr.kind \in {"BoolLiteral", "IntLiteral"} -> <<>>
      [] expr.kind = "TypeLiteral" -> NonGlobal([i \in 1..Len(expr.args) |-> expr.args[i].var])
      [] expr.kind = "ListExpr" -> NonGlobal(expr.elems)
      [] expr.kind = "AddToSetExpr" -> NonGlobal(<<expr.set_expr, expr.elem_expr>>)
      [] expr.kind = "FunctionCall" -> NonGlobal(<<expr.fun>> \o expr.args)
      [] expr.kind = "MatchExpr" -> NonGlobal(expr.matched_vars) \o MatchCasesFreeVars(expr.match_cases)
      [] expr.kind = "ListComprehensionExpr" ->
            NonGlobal(<<expr.list_var>>)
            \o NotNamed(NonGlobal(<<expr.result_elem_expr.fun>> \o expr.result_elem_expr.args),
                        {expr.loop_var.name})
      [] expr.kind \in {"EqualityComparison", "SetEqualityComparison", "IntComparisonExpr",
                        "IntBinaryOpExpr", "ListConcatExpr"} -> NonGlobal(<<expr.lhs, expr.rhs>>)
      [] OTHER -> NonGlobal(<<expr.var>>)

(* Scans stmts in order.  [free, defined, returns]: the references met      *)
(* before a definition of their name, the names defined on every path that  *)
(* reaches the end of stmts, and whether no path reaches it.                *)
UseRefs(free, defined, refs) == free \o NotNamed(refs, defined)

ReturnStmtRefs(stmt) ==
    NonGlobal((IF IsNone(stmt.result) THEN <<>> ELSE <<stmt.result>>)
              \o (IF IsNone(stmt.error) THEN <<>> ELSE <<stmt.error>>))

AssignmentDefs(stmt) == {stmt.lhs.name} \cup (IF IsNone(stmt.lhs2) THEN {} ELSE {stmt.lhs2.name})

RECURSIVE FreeAndDefined(_, _, _)
FreeAndDefined(stmts, defined, free) ==
    IF stmts = <<>> THEN [free |-> free, defined |-> defined, returns |-> FALSE]
    ELSE CASE Head(stmts).kind = "Assignment" ->
                FreeAndDefined(Tail(stmts), defined \cup AssignmentDefs(Head(stmts)),
                               UseRefs(free, defined, get_free_variables_in_expr(Head(stmts).rhs)))
           [] Head(stmts).kind = "UnpackingAssignment" ->
                FreeAndDefined(Tail(stmts),
                               defined \cup {v.name : v \in Range(Head(stmts).lhs_list)},
                               UseRefs(free, defined, NonGlobal(<<Head(stmts).rhs>>)))
           [] Head(stmts).kind = "Assert" ->
                FreeAndDefined(Tail(stmts), defined, UseRefs(free, defined, NonGlobal(<<Head(stmts).var>>)))
           [] Head(stmts).kind = "ReturnStmt" ->
                [free |-> UseRefs(free, defined, ReturnStmtRefs(Head(stmts))),
                 defined |-> defined, returns |-> TRUE]
           [] Head(stmts).kind = "IfStmt" ->
                Bind(FreeAndDefined(Head(stmts).if_stmts, defined,
                                    UseRefs(free, defined, NonGlobal(<<Head(stmts).cond>>))), LAMBDA t :
                Bind(FreeAndDefined(Head(stmts).else_stmts, defined, t.free), LAMBDA e :
                    IF t.returns /\ e.returns
                    THEN [free |-> e.free, defined |-> defined, returns |-> TRUE]
                    ELSE FreeAndDefined(Tail(stmts),
                                        IF t.returns THEN e.defined
                                        ELSE IF e.returns THEN t.defined
                                        ELSE t.defined \cap e.defined,
                                        e.free)))

get_unique_free_variables_in_stmts(stmts) == UniqueByName(FreeAndDefined(stmts, {}, <<>>).free, {})

(***************************************************************************)
(* utils.replace_identifiers: a type pattern is a sequence of tokens; the  *)
(* identifiers among them that have a replacement are replaced.            *)
(***************************************************************************)
replace_identifiers(type_pattern, replacements) ==
    [i \in 1..Len(type_pattern) |->
        IF type_pattern[i] \in DOMAIN replacements THEN replacements[type_pattern[i]] ELSE type_pattern[i]]

(***************************************************************************)
(* The identifier generator: prefix + str(x), x = 0, 1, 2, ...             *)
(***************************************************************************)
IdPrefix == "TmppyInternal_"

generate_identifier(x) == IdPrefix \o ToString(x)

(***************************************************************************)
(* FunWriter.  next_id is the position of identifier_generator.            *)
(***************************************************************************)
(* The generator left where it is: the next draw gives the same name. *)
new_id_without_advance(fw) == [id |-> generate_identifier(fw.next_id), fw |-> fw]

new_id(fw) == [id |-> generate_identifier(fw.next_id), fw |-> [fw EXCEPT !.next_id = @ + 1]]

(* Without the memo: a new name at every use. *)
obfuscate_identifier_without_memo(fw, identifier) ==
    Bind(new_id(fw), LAMBDA n :
        [name |-> n.id,
         fw |-> [n.fw EXCEPT !.obfuscated_identifiers_by_identifier =
                                 (identifier :> n.id) @@ @]])

obfuscate_identifier(fw, identifier) ==
    IF identifier \in DOMAIN fw.obfuscated_identifiers_by_identifier
    THEN [name |-> fw.obfuscated_identifiers_by_identifier[identifier], fw |-> fw]
    ELSE Bind(new_id(fw), LAMBDA n :
             [name |-> n.id,
              fw |-> [n.fw EXCEPT !.obfuscated_identifiers_by_identifier = @ @@ (identifier :> n.id)]])

new_var(fw, type, is_global_function) ==
    Bind(new_id(fw), LAMBDA n :
        [var |-> VarReference(type, n.id, is_global_function, type.kind = "FunctionType"), fw |-> n.fw])

(* The definition put before the ones written so far. *)
write_function_first(fw, fun_defn) == [fw EXCEPT !.function_defns = <<fun_defn>> \o @]

write_function(fw, fun_defn) == [fw EXCEPT !.function_defns = Append(@, fun_defn)]

(***************************************************************************)
(* StmtWriter.  fun_writer is the FunWriter it shares with every other     *)
(* StmtWriter of the module: an operator that used a nested writer hands   *)
(* the nested writer's fun_writer back to the enclosing one.               *)
(***************************************************************************)
StmtWriter(fw, current_fun_return_type) ==
    [fun_writer |-> fw, current_fun_return_type |-> current_fun_return_type,
     stmts |-> <<>>, try_except_contexts |-> <<>>]

TryExceptContext(caught_exception_type, caught_exception_name, except_fun_call_expr) ==
    [kind |-> "TryExceptContext",
     caught_exception_type |-> caught_exception_type,
     caught_exception_name |-> caught_exception_name,
     except_fun_call_expr |-> except_fun_call_expr]

with_fun_writer(writer, fw) == [writer EXCEPT !.fun_writer = fw]

write_stmt(writer, stmt) == [writer EXCEPT !.stmts = Append(@, stmt)]

writer_new_id(writer) ==
    Bind(new_id(writer.fun_writer), LAMBDA n : [id |-> n.id, w |-> with_fun_writer(writer, n.fw)])

writer_obfuscate_identifier(writer, identifier) ==
    Bind(obfuscate_identifier(writer.fun_writer, identifier), LAMBDA o :
        [name |-> o.name, w |-> with_fun_writer(writer, o.fw)])

writer_new_var(writer, type) ==
    Bind(new_var(writer.fun_writer, type, FALSE), LAMBDA n :
        [var |-> n.var, w |-> with_fun_writer(writer, n.fw)])

writer_write_function(writer, fun_defn) ==
    with_fun_writer(writer, write_function(writer.fun_writer, fun_defn))

new_var_for_expr(writer, expr) ==
    Bind(writer_new_var(writer, expr.type), LAMBDA n :
        [var |-> n.var, w |-> write_stmt(n.w, Assignment(n.var, None, expr))])

(* The loop body without the isinstance test: the handler is called for    *)
(* an error of any type.                                                    *)
error_branch_for_context_without_type_test(context, outer_if_branch_writer, error_var, current_fun_return_type) ==
    Bind(obfuscate_identifier(outer_if_branch_writer.fun_writer, context.caught_exception_name),
         LAMBDA e_name :
    Bind(new_var(e_name.fw, current_fun_return_type, FALSE), LAMBDA res_i :
    Bind(new_var(res_i.fw, ErrorOrVoidType, FALSE), LAMBDA err_i :
        write_stmt(
            write_stmt(
                write_stmt(with_fun_writer(outer_if_branch_writer, err_i.fw),
                           Assignment(VarReference(context.caught_exception_type, e_name.name,
                                                   FALSE, FALSE),
                                      None,
                                      SafeUncheckedCast(error_var, context.caught_exception_type))),
                Assignment(res_i.var, err_i.var, context.except_fun_call_expr)),
            ReturnStmt(res_i.var, err_i.var)))))

(* The body of the loop over self.try_except_contexts: what one context     *)
(* adds to outer_if_branch_writer.                                          *)
error_branch_for_context(context, outer_if_branch_writer, error_var, current_fun_return_type) ==
    Bind(obfuscate_identifier(outer_if_branch_writer.fun_writer, context.caught_exception_name),
         LAMBDA e_name :
    Bind(new_var(e_name.fw, current_fun_return_type, FALSE), LAMBDA res_i :
    Bind(new_var(res_i.fw, ErrorOrVoidType, FALSE), LAMBDA err_i :
    Bind(new_var_for_expr(with_fun_writer(outer_if_branch_writer, err_i.fw),
                          IsInstanceExpr(error_var, context.caught_exception_type)), LAMBDA b_i :
        write_stmt(b_i.w,
                   IfStmt(b_i.var,
                          << Assignment(VarReference(context.caught_exception_type, e_name.name,
                                                     FALSE, FALSE),
                                        None,
                                        SafeUncheckedCast(error_var, context.caught_exception_type)),
                             Assignment(res_i.var, err_i.var, context.except_fun_call_expr),
                             ReturnStmt(res_i.var, err_i.var) >>,
                          <<>>))))))

(* for context in self.try_except_contexts: in list order. *)
RECURSIVE error_branch_for_contexts(_, _, _, _)
error_branch_for_contexts(contexts, outer_if_branch_writer, error_var, current_fun_return_type) ==
    IF contexts = <<>> THEN outer_if_branch_writer
    ELSE error_branch_for_contexts(
             Tail(contexts),
             error_branch_for_context(Head(contexts), outer_if_branch_writer, error_var,
                                      current_fun_return_type),
             error_var, current_fun_return_type)

new_var_for_expr_with_error_checking(writer, expr) ==
    IF ~IsNone(writer.current_fun_return_type)
    THEN Bind(writer_new_var(writer, expr.type), LAMBDA x_var :
         Bind(writer_new_var(x_var.w, ErrorOrVoidType), LAMBDA error_var :
         Bind(new_var_for_expr(write_stmt(error_var.w, Assignment(x_var.var, error_var.var, expr)),
                               FunctionCall(writer.fun_writer.is_error_fun_ref, <<error_var.var>>)),
              LAMBDA b_var :
         Bind(write_stmt(error_branch_for_contexts(
                             writer.try_except_contexts,
                             StmtWriter(b_var.w.fun_writer, writer.current_fun_return_type),
                             error_var.var, writer.current_fun_return_type),
                         ReturnStmt(None, error_var.var)), LAMBDA outer_if_branch_writer :
             [var |-> x_var.var,
              w |-> write_stmt(with_fun_writer(b_var.w, outer_if_branch_writer.fun_writer),
                               IfStmt(b_var.var, outer_if_branch_writer.stmts, <<>>))]))))
    ELSE Bind(writer_new_var(writer, expr.type), LAMBDA x_var :
             [var |-> x_var.var, w |-> write_stmt(x_var.w, Assignment(x_var.var, None, expr))])

enter_try_except_context(writer, context) ==
    [writer EXCEPT !.try_except_contexts = Append(@, context)]

exit_try_except_context(writer) ==
    [writer EXCEPT !.try_except_contexts = SubSeq(@, 1, Len(@) - 1)]

(* FunWriter._create_is_error_fun_defn: [defn, fw] *)
create_is_error_fun_defn(fw) ==
    Bind(writer_new_var(StmtWriter(fw, BoolType), ErrorOrVoidType), LAMBDA x_var :
    Bind(new_var_for_expr(x_var.w, TypeLiteral("void", <<>>)), LAMBDA v_var :
    Bind(new_var_for_expr(v_var.w, EqualityComparison(x_var.var, v_var.var)), LAMBDA b_var :
    Bind(new_var_for_expr(b_var.w, NotExpr(b_var.var)), LAMBDA b2_var :
        [defn |-> FunctionDefn(fw.is_error_fun_ref.name, "The is_error (meta)function",
                               <<FunctionArgDecl(x_var.var.type, x_var.var.name)>>,
                               Append(b2_var.w.stmts, ReturnStmt(b2_var.var, None)),
                               BoolType),
         fw |-> b2_var.w.fun_writer]))))

(* FunWriter.__init__ *)
FunWriter(first_id) ==
    Bind(new_var([next_id |-> first_id, is_error_fun_ref |-> None, function_defns |-> <<>>,
                  obfuscated_identifiers_by_identifier |-> <<>>],
                 FunctionType(<<ErrorOrVoidType>>, BoolType), TRUE), LAMBDA ref :
    Bind(create_is_error_fun_defn([ref.fw EXCEPT !.is_error_fun_ref = ref.var]), LAMBDA d :
        [d.fw EXCEPT !.function_defns = <<d.defn>>]))

(***************************************************************************)
(* Types.                                                                  *)
(***************************************************************************)
RECURSIVE type_to_ir2(_)
type_to_ir2_keeps_sets(type) ==
    CASE type.kind \in {"BoolType", "IntType", "TypeType", "BottomType", "SetType"} -> type
      [] type.kind = "ListType" -> ListType(type_to_ir2(type.elem_type))
      [] type.kind = "FunctionType" ->
            FunctionType([i \in 1..Len(type.argtypes) |-> type_to_ir2(type.argtypes[i])],
                         type_to_ir2(type.returns))
      [] type.kind = "CustomType" ->
            CustomType(type.name,
                       [i \in 1..Len(type.arg_types) |->
                           CustomTypeArgDecl(type.arg_types[i].name, type_to_ir2(type.arg_types[i].type))])

type_to_ir2(type) ==
    CASE type.kind = "BoolType" -> BoolType
      [] type.kind = "IntType" -> IntType
      [] type.kind = "TypeType" -> TypeType
      [] type.kind = "BottomType" -> BottomType
      [] type.kind = "ListType" -> Bind(type_to_ir2(type.elem_type), LAMBDA elem_type : ListType(elem_type))
      [] type.kind = "SetType" -> Bind(type_to_ir2(type.elem_type), LAMBDA elem_type : ListType(elem_type))
      [] type.kind = "FunctionType" ->
            Build([i \in 1..Len(type.argtypes) |-> type_to_ir2(type.argtypes[i])] \o <<type_to_ir2(type.returns)>>,
                  FunctionType([i \in 1..Len(type.argtypes) |-> type_to_ir2(type.argtypes[i])],
                               type_to_ir2(type.returns)))
      [] type.kind = "CustomType" ->
            Build([i \in 1..Len(type.arg_types) |-> type_to_ir2(type.arg_types[i].type)],
                  CustomType(type.name,
                             [i \in 1..Len(type.arg_types) |->
                                 CustomTypeArgDecl(type.arg_types[i].name, type_to_ir2(type.arg_types[i].type))]))
      [] OTHER -> RaisedError(NotImplementedError, "Unexpected type")

(***************************************************************************)
(* Expressions.  Every operator returns [var, w]: the ir2 variable holding *)
(* the value and the writer after the statements it wrote.                 *)
(***************************************************************************)
RECURSIVE expr_to_ir2(_, _)
RECURSIVE stmts_to_ir2(_, _)

RECURSIVE exprs_to_ir2(_, _)
exprs_to_ir2(exprs, writer) ==
    IF exprs = <<>> THEN [vars |-> <<>>, w |-> writer]
    ELSE Bind(expr_to_ir2(Head(exprs), writer), LAMBDA h :
         Bind(exprs_to_ir2(Tail(exprs), h.w), LAMBDA t :
             [vars |-> <<h.var>> \o t.vars, w |-> t.w]))

RECURSIVE obfuscate_identifiers(_, _)
obfuscate_identifiers(names, writer) ==
    IF names = <<>> THEN [names |-> <<>>, w |-> writer]
    ELSE Bind(writer_obfuscate_identifier(writer, Head(names)), LAMBDA h :
         Bind(obfuscate_identifiers(Tail(names), h.w), LAMBDA t :
             [names |-> <<h.name>> \o t.names, w |-> t.w]))

function_arg_decl_to_ir2(decl, writer) ==
    Bind(type_to_ir2(decl.type), LAMBDA type :
    Bind(writer_obfuscate_identifier(writer, decl.name), LAMBDA o :
        [decl |-> FunctionArgDecl(type, o.name), w |-> o.w]))

var_reference_to_ir2(var, writer) ==
    Bind(type_to_ir2(var.type), LAMBDA type :
    IF var.is_global_function
    THEN [var |-> VarReference(type, var.name,
                               var.is_global_function, var.is_function_that_may_throw),
          w |-> writer]
    ELSE Bind(writer_obfuscate_identifier(writer, var.name), LAMBDA o :
             [var |-> VarReference(type, o.name,
                                   var.is_global_function, var.is_function_that_may_throw),
              w |-> o.w]))

(* The parameters in the reverse of the order of the call's arguments. *)
forwarded_arg_decls_reversed(forwarded_vars) ==
    [i \in 1..Len(forwarded_vars) |->
        FunctionArgDecl(forwarded_vars[Len(forwarded_vars) + 1 - i].type,
                        forwarded_vars[Len(forwarded_vars) + 1 - i].name)]

forwarded_arg_decls(forwarded_vars) ==
    [i \in 1..Len(forwarded_vars) |-> FunctionArgDecl(forwarded_vars[i].type, forwarded_vars[i].name)]

forwarded_arg_types(forwarded_vars) == [i \in 1..Len(forwarded_vars) |-> forwarded_vars[i].type]

(* A helper (meta)function wrapping helper_writer.stmts, written through    *)
(* writer: [call, w], the call of the helper and the writer afterwards.     *)
write_helper_function(writer, helper_writer, description, return_type) ==
    Bind(get_unique_free_variables_in_stmts(helper_writer.stmts), LAMBDA forwarded_vars :
    Bind(writer_new_id(with_fun_writer(writer, helper_writer.fun_writer)), LAMBDA fun_name :
        [call |-> FunctionCall(VarReference(FunctionType(forwarded_arg_types(forwarded_vars), return_type),
                                            fun_name.id, TRUE, TRUE),
                               forwarded_vars),
         w |-> writer_write_function(fun_name.w,
                                     FunctionDefn(fun_name.id, description,
                                                  forwarded_arg_decls(forwarded_vars),
                                                  helper_writer.stmts, return_type))]))

(* One iteration of the loop over match_expr.match_cases: [case, w]. *)
match_case_to_ir2(match_case, match_type, writer) ==
    Bind(type_to_ir2(match_type), LAMBDA return_type :
    Bind(expr_to_ir2(match_case.expr, StmtWriter(writer.fun_writer, return_type)),
         LAMBDA match_case_var :
    Bind(write_helper_function(writer,
                               write_stmt(match_case_var.w, ReturnStmt(match_case_var.var, None)),
                               "(meta)function wrapping the code in a branch of a match expression",
                               match_case_var.var.type), LAMBDA match_fun :
    Bind(obfuscate_identifiers(match_case.matched_var_names, match_fun.w), LAMBDA obf :
        [case |-> MatchCase([i \in 1..Len(match_case.type_patterns) |->
                                replace_identifiers(
                                    match_case.type_patterns[i],
                                    [n \in Range(match_case.matched_var_names) |->
                                        obf.w.fun_writer.obfuscated_identifiers_by_identifier[n]])],
                            obf.names,
                            match_fun.call),
         w |-> obf.w]))))

RECURSIVE match_cases_to_ir2(_, _, _)
match_cases_to_ir2(match_cases, match_type, writer) ==
    IF match_cases = <<>> THEN [cases |-> <<>>, w |-> writer]
    ELSE Bind(match_case_to_ir2(Head(match_cases), match_type, writer), LAMBDA h :
         Bind(match_cases_to_ir2(Tail(match_cases), match_type, h.w), LAMBDA t :
             [cases |-> <<h.case>> \o t.cases, w |-> t.w]))

match_expr_to_ir2(match_expr, writer) ==
    Bind(exprs_to_ir2(match_expr.matched_exprs, writer), LAMBDA matched_vars :
    Bind(match_cases_to_ir2(match_expr.match_cases, match_expr.type, matched_vars.w), LAMBDA match_cases :
        new_var_for_expr_with_error_checking(match_cases.w,
                                             MatchExpr(matched_vars.vars, match_cases.cases))))

bool_literal_to_ir2(literal, writer) == new_var_for_expr(writer, BoolLiteral(literal.value))

int_literal_to_ir2(literal, writer) == new_var_for_expr(writer, IntLiteral(literal.ivalue))

(* literal.arg_exprs is a sequence of [name, expr] in sorted-key order. *)
RECURSIVE type_literal_args_to_ir2(_, _)
type_literal_args_to_ir2(arg_exprs, writer) ==
    IF arg_exprs = <<>> THEN [args |-> <<>>, w |-> writer]
    ELSE Bind(expr_to_ir2(Head(arg_exprs).expr, writer), LAMBDA h :
         Bind(type_literal_args_to_ir2(Tail(arg_exprs), h.w), LAMBDA t :
             [args |-> <<[name |-> Head(arg_exprs).name, var |-> h.var]>> \o t.args, w |-> t.w]))

type_literal_to_ir2(literal, writer) ==
    Bind(type_literal_args_to_ir2(literal.arg_exprs, writer), LAMBDA a :
        new_var_for_expr(a.w, TypeLiteral(literal.cpp_type, a.args)))

list_expr_to_ir2(list_expr, writer) ==
    Bind(type_to_ir2(list_expr.elem_type), LAMBDA elem_type :
    Bind(exprs_to_ir2(list_expr.elem_exprs, writer), LAMBDA elem_vars :
        new_var_for_expr(elem_vars.w, ListExpr(elem_type, elem_vars.vars))))

RECURSIVE add_to_set_all(_, _, _)
add_to_set_all(elem_vars, result, writer) ==
    IF elem_vars = <<>> THEN [var |-> result, w |-> writer]
    ELSE Bind(new_var_for_expr(writer, AddToSetExpr(result, Head(elem_vars))), LAMBDA r :
             add_to_set_all(Tail(elem_vars), r.var, r.w))

set_expr_to_ir2(set_expr, writer) ==
    Bind(type_to_ir2(set_expr.elem_type), LAMBDA elem_type :
    Bind(new_var_for_expr(writer, ListExpr(elem_type, <<>>)), LAMBDA result :
    Bind(exprs_to_ir2(set_expr.elem_exprs, result.w), LAMBDA elem_vars :
        add_to_set_all(elem_vars.vars, result.var, elem_vars.w))))

(* Without the error check of a call that may fail. *)
function_call_to_ir2_never_checks(call_expr, writer) ==
    Bind(expr_to_ir2(call_expr.fun_expr, writer), LAMBDA fun_var :
    Bind(exprs_to_ir2(call_expr.args, fun_var.w), LAMBDA arg_vars :
        new_var_for_expr(arg_vars.w, FunctionCall(fun_var.var, arg_vars.vars))))

function_call_to_ir2(call_expr, writer) ==
    Bind(expr_to_ir2(call_expr.fun_expr, writer), LAMBDA fun_var :
    Bind(exprs_to_ir2(call_expr.args, fun_var.w), LAMBDA arg_vars :
        IF fun_var.var.is_function_that_may_throw
        THEN new_var_for_expr_with_error_checking(arg_vars.w, FunctionCall(fun_var.var, arg_vars.vars))
        ELSE new_var_for_expr(arg_vars.w, FunctionCall(fun_var.var, arg_vars.vars))))

(* Always the plain comparison. *)
equality_comparison_to_ir2_always_plain(comparison_expr, writer) ==
    Bind(expr_to_ir2(comparison_expr.lhs, writer), LAMBDA lhs :
    Bind(expr_to_ir2(comparison_expr.rhs, lhs.w), LAMBDA rhs :
        new_var_for_expr(rhs.w, EqualityComparison(lhs.var, rhs.var))))

equality_comparison_to_ir2(comparison_expr, writer) ==
    Bind(expr_to_ir2(comparison_expr.lhs, writer), LAMBDA lhs :
    Bind(expr_to_ir2(comparison_expr.rhs, lhs.w), LAMBDA rhs :
        IF comparison_expr.lhs.type.kind = "SetType"
        THEN new_var_for_expr(rhs.w, SetEqualityComparison(lhs.var, rhs.var))
        ELSE new_var_for_expr(rhs.w, EqualityComparison(lhs.var, rhs.var))))

attribute_access_expr_to_ir2(attribute_access_expr, writer) ==
    Bind(expr_to_ir2(attribute_access_expr.expr, writer), LAMBDA v :
    Bind(type_to_ir2(attribute_access_expr.type), LAMBDA type :
        new_var_for_expr(v.w, AttributeAccessExpr(v.var, attribute_access_expr.attribute_name, type))))

and_expr_to_ir2(expr, writer) ==
    Bind(expr_to_ir2(expr.lhs, writer), LAMBDA lhs_var :
    Bind(expr_to_ir2(expr.rhs, StmtWriter(lhs_var.w.fun_writer, writer.current_fun_return_type)),
         LAMBDA rhs_var :
        [var |-> rhs_var.var,
         w |-> write_stmt(with_fun_writer(lhs_var.w, rhs_var.w.fun_writer),
                          IfStmt(lhs_var.var, rhs_var.w.stmts,
                                 <<Assignment(rhs_var.var, None, BoolLiteral(FALSE))>>))]))

or_expr_to_ir2(expr, writer) ==
    Bind(expr_to_ir2(expr.lhs, writer), LAMBDA lhs_var :
    Bind(expr_to_ir2(expr.rhs, StmtWriter(lhs_var.w.fun_writer, writer.current_fun_return_type)),
         LAMBDA rhs_var :
        [var |-> rhs_var.var,
         w |-> write_stmt(with_fun_writer(lhs_var.w, rhs_var.w.fun_writer),
                          IfStmt(lhs_var.var,
                                 <<Assignment(rhs_var.var, None, BoolLiteral(TRUE))>>,
                                 rhs_var.w.stmts))]))

(* not, unary minus, sum / all / any over a list or a set: one operand,     *)
(* lowered first, then one new variable for the ir2 node.                   *)
unary_expr_to_ir2(operand, ir2_kind, ir2_type, writer) ==
    Bind(expr_to_ir2(operand, writer), LAMBDA v :
        new_var_for_expr(v.w, UnaryExpr(ir2_kind, ir2_type, v.var)))

not_expr_to_ir2(expr, writer) == unary_expr_to_ir2(expr.expr, "NotExpr", BoolType, writer)

int_unary_minus_expr_to_ir2(expr, writer) == unary_expr_to_ir2(expr.expr, "UnaryMinusExpr", IntType, writer)

int_list_sum_expr_to_ir2(expr, writer) == unary_expr_to_ir2(expr.list_expr, "IntListSumExpr", IntType, writer)

int_set_sum_expr_to_ir2(expr, writer) == unary_expr_to_ir2(expr.set_expr, "IntListSumExpr", IntType, writer)

bool_list_all_expr_to_ir2(expr, writer) == unary_expr_to_ir2(expr.list_expr, "BoolListAllExpr", BoolType, writer)

bool_set_all_expr_to_ir2(expr, writer) == unary_expr_to_ir2(expr.set_expr, "BoolListAllExpr", BoolType, writer)

bool_list_any_expr_to_ir2(expr, writer) == unary_expr_to_ir2(expr.list_expr, "BoolListAnyExpr", BoolType, writer)

bool_set_any_expr_to_ir2(expr, writer) == unary_expr_to_ir2(expr.set_expr, "BoolListAnyExpr", BoolType, writer)

int_comparison_expr_to_ir2(expr, writer) ==
    Bind(expr_to_ir2(expr.lhs, writer), LAMBDA lhs :
    Bind(expr_to_ir2(expr.rhs, lhs.w), LAMBDA rhs :
        new_var_for_expr(rhs.w, IntComparisonExpr(lhs.var, rhs.var, expr.op))))

int_binary_op_expr_to_ir2(expr, writer) ==
    Bind(expr_to_ir2(expr.lhs, writer), LAMBDA lhs :
    Bind(expr_to_ir2(expr.rhs, lhs.w), LAMBDA rhs :
        new_var_for_expr(rhs.w, IntBinaryOpExpr(lhs.var, rhs.var, expr.op))))

list_concat_expr_to_ir2(expr, writer) ==
    Bind(expr_to_ir2(expr.lhs, writer), LAMBDA lhs :
    Bind(expr_to_ir2(expr.rhs, lhs.w), LAMBDA rhs :
        new_var_for_expr(rhs.w, ListConcatExpr(lhs.var, rhs.var))))

deconstructed_list_comprehension_expr_to_ir2(list_var, loop_var, result_elem_expr, writer) ==
    Bind(type_to_ir2(result_elem_expr.type), LAMBDA result_elem_type :
    Bind(expr_to_ir2(result_elem_expr, StmtWriter(writer.fun_writer, result_elem_type)),
         LAMBDA elem_var :
    Bind(write_helper_function(writer,
                               write_stmt(elem_var.w, ReturnStmt(elem_var.var, None)),
                               "(meta)function wrapping the result expression in a list/set comprehension",
                               result_elem_type), LAMBDA helper_fun :
    Bind(var_reference_to_ir2(loop_var, helper_fun.w), LAMBDA loop_var2 :
        new_var_for_expr_with_error_checking(
            loop_var2.w, ListComprehensionExpr(list_var, loop_var2.var, helper_fun.call))))))

list_comprehension_expr_to_ir2(expr, writer) ==
    Bind(expr_to_ir2(expr.list_expr, writer), LAMBDA l_var :
        deconstructed_list_comprehension_expr_to_ir2(l_var.var, expr.loop_var, expr.result_elem_expr, l_var.w))

set_comprehension_expr_to_ir2(expr, writer) ==
    Bind(expr_to_ir2(expr.set_expr, writer), LAMBDA s_var :
    Bind(new_var_for_expr(s_var.w, SetToListExpr(s_var.var)), LAMBDA l_var :
    Bind(deconstructed_list_comprehension_expr_to_ir2(l_var.var, expr.loop_var,
                                                      expr.result_elem_expr, l_var.w), LAMBDA l2_var :
        new_var_for_expr(l2_var.w, ListToSetExpr(l2_var.var)))))

expr_to_ir2(expr, writer) ==
    CASE expr.kind = "VarReference" -> var_reference_to_ir2(expr, writer)
      [] expr.kind = "MatchExpr" -> match_expr_to_ir2(expr, writer)
      [] expr.kind = "BoolLiteral" -> bool_literal_to_ir2(expr, writer)
      [] expr.kind = "IntLiteral" -> int_literal_to_ir2(expr, writer)
      [] expr.kind = "TypeLiteral" -> type_literal_to_ir2(expr, writer)
      [] expr.kind = "ListExpr" -> list_expr_to_ir2(expr, writer)
      [] expr.kind = "SetExpr" -> set_expr_to_ir2(expr, writer)
      [] expr.kind = "FunctionCall" -> function_call_to_ir2(expr, writer)
      [] expr.kind = "EqualityComparison" -> equality_comparison_to_ir2(expr, writer)
      [] expr.kind = "AttributeAccessExpr" -> attribute_access_expr_to_ir2(expr, writer)
      [] expr.kind = "AndExpr" -> and_expr_to_ir2(expr, writer)
      [] expr.kind = "OrExpr" -> or_expr_to_ir2(expr, writer)
      [] expr.kind = "NotExpr" -> not_expr_to_ir2(expr, writer)
      [] expr.kind = "IntUnaryMinusExpr" -> int_unary_minus_expr_to_ir2(expr, writer)
      [] expr.kind = "IntListSumExpr" -> int_list_sum_expr_to_ir2(expr, writer)
      [] expr.kind = "IntSetSumExpr" -> int_set_sum_expr_to_ir2(expr, writer)
      [] expr.kind = "BoolListAllExpr" -> bool_list_all_expr_to_ir2(expr, writer)
      [] expr.kind = "BoolSetAllExpr" -> bool_set_all_expr_to_ir2(expr, writer)
      [] expr.kind = "BoolListAnyExpr" -> bool_list_any_expr_to_ir2(expr, writer)
      [] expr.kind = "BoolSetAnyExpr" -> bool_set_any_expr_to_ir2(expr, writer)
      [] expr.kind = "IntComparisonExpr" -> int_comparison_expr_to_ir2(expr, writer)
      [] expr.kind = "IntBinaryOpExpr" -> int_binary_op_expr_to_ir2(expr, writer)
      [] expr.kind = "ListConcatExpr" -> list_concat_expr_to_ir2(expr, writer)
      [] expr.kind = "ListComprehension" -> list_comprehension_expr_to_ir2(expr, writer)
      [] expr.kind = "SetComprehension" -> set_comprehension_expr_to_ir2(expr, writer)
      [] OTHER -> RaisedError(NotImplementedError, "Unexpected expression")

(***************************************************************************)
(* Statements.  Every operator returns the writer after the statement.     *)
(***************************************************************************)
assert_to_ir2(assert_stmt, writer) ==
    IF "expr" \notin DOMAIN assert_stmt THEN RaisedError(AttributeError, "expr")
    ELSE Bind(expr_to_ir2(assert_stmt.expr, writer), LAMBDA v :
             write_stmt(v.w, AssertStmt(v.var, assert_stmt.message)))

function_ref_for(fun_defn) ==
    VarReference(FunctionType([i \in 1..Len(fun_defn.args) |-> fun_defn.args[i].type],
                              fun_defn.return_type),
                 fun_defn.name, TRUE, TRUE)

(* The result of the call returned with no test of its error. *)
write_return_of_unchecked_call(writer, call_expr) ==
    Bind(new_var_for_expr(writer, call_expr), LAMBDA r :
        write_stmt(r.w, ReturnStmt(r.var, None)))

(* ReturnStmt(result=writer.new_var_for_expr_with_error_checking(call), error=None) *)
write_return_of_checked_call(writer, call_expr) ==
    Bind(new_var_for_expr_with_error_checking(writer, call_expr), LAMBDA r :
        write_stmt(r.w, ReturnStmt(r.var, None)))

(* The function wrapping stmts_writer.stmts: [call_expr, fw]. *)
write_wrapping_function(stmts_writer, description, return_type) ==
    Bind(get_unique_free_variables_in_stmts(stmts_writer.stmts), LAMBDA forwarded_vars :
    Bind(new_id(stmts_writer.fun_writer), LAMBDA name :
    Bind(FunctionDefn(name.id, description, forwarded_arg_decls(forwarded_vars),
                      stmts_writer.stmts, return_type), LAMBDA fun_defn :
        [call_expr |-> FunctionCall(function_ref_for(fun_defn), forwarded_vars),
         fw |-> write_function(name.fw, fun_defn)])))

(* if then_stmts: ... else: then_fun_call_expr = None *)
then_fun_to_ir2(then_stmts, writer) ==
    IF then_stmts # <<>>
    THEN Bind(stmts_to_ir2(then_stmts, StmtWriter(writer.fun_writer, writer.current_fun_return_type)),
              LAMBDA then_stmts_writer :
             write_wrapping_function(
                 then_stmts_writer,
                 "(meta)function wrapping the code after a try-except statement",
                 writer.current_fun_return_type))
    ELSE [call_expr |-> None, fw |-> writer.fun_writer]

body_always_returns(body) == body # <<>> /\ always_returns(Last(body))

except_fun_to_ir2(try_except_stmt, then_fun_call_expr, fw, return_type) ==
    Bind(stmts_to_ir2(try_except_stmt.except_body, StmtWriter(fw, return_type)),
         LAMBDA except_stmts_writer :
        write_wrapping_function(
            IF ~IsNone(then_fun_call_expr) /\ ~body_always_returns(try_except_stmt.except_body)
            THEN write_return_of_checked_call(except_stmts_writer, then_fun_call_expr)
            ELSE except_stmts_writer,
            "(meta)function wrapping the code in an except block",
            return_type))

try_body_to_ir2(try_except_stmt, then_fun_call_expr, except_fun_call_expr, writer) ==
    Bind(type_to_ir2(try_except_stmt.caught_exception_type), LAMBDA caught_exception_type :
    Bind(stmts_to_ir2(try_except_stmt.try_body,
                      enter_try_except_context(
                          writer,
                          TryExceptContext(caught_exception_type,
                                           try_except_stmt.caught_exception_name,
                                           except_fun_call_expr))), LAMBDA try_body_writer :
    Bind(exit_try_except_context(try_body_writer), LAMBDA w :
        IF ~IsNone(then_fun_call_expr) /\ ~body_always_returns(try_except_stmt.try_body)
        THEN write_return_of_checked_call(w, then_fun_call_expr)
        ELSE w)))

try_except_stmt_to_ir2(try_except_stmt, then_stmts, writer) ==
    Bind(then_fun_to_ir2(then_stmts, writer), LAMBDA then_fun :
    Bind(except_fun_to_ir2(try_except_stmt, then_fun.call_expr, then_fun.fw,
                           writer.current_fun_return_type), LAMBDA except_fun :
        try_body_to_ir2(try_except_stmt, then_fun.call_expr, except_fun.call_expr,
                        with_fun_writer(writer, except_fun.fw))))

assignment_to_ir2(assignment, writer) ==
    Bind(var_reference_to_ir2(assignment.lhs, writer), LAMBDA lhs :
    Bind(expr_to_ir2(assignment.rhs, lhs.w), LAMBDA rhs :
        write_stmt(rhs.w, Assignment(lhs.var, None, rhs.var))))

RECURSIVE var_references_to_ir2(_, _)
var_references_to_ir2(refs, writer) ==
    IF refs = <<>> THEN [vars |-> <<>>, w |-> writer]
    ELSE Bind(var_reference_to_ir2(Head(refs), writer), LAMBDA h :
         Bind(var_references_to_ir2(Tail(refs), h.w), LAMBDA t :
             [vars |-> <<h.var>> \o t.vars, w |-> t.w]))

unpacking_assignment_to_ir2(assignment, writer) ==
    Bind(var_references_to_ir2(assignment.lhs_list, writer), LAMBDA lhs_list :
    Bind(expr_to_ir2(assignment.rhs, lhs_list.w), LAMBDA rhs :
        write_stmt(rhs.w, UnpackingAssignment(lhs_list.vars, rhs.var, assignment.error_message))))

return_stmt_to_ir2(return_stmt, writer) ==
    Bind(expr_to_ir2(return_stmt.expr, writer), LAMBDA v :
        write_stmt(v.w, ReturnStmt(v.var, None)))

(* for context in writer.try_except_contexts: the first whose type matches. *)
first_matching_context(contexts, type) ==
    IF \E i \in 1..Len(contexts) : contexts[i].caught_exception_type = type
    THEN contexts[CHOOSE i \in 1..Len(contexts) :
                      /\ contexts[i].caught_exception_type = type
                      /\ \A j \in 1..(i - 1) : contexts[j].caught_exception_type # type]
    ELSE None

(* The body of the loop of raise_stmt_to_ir2 for the context that matches. *)
raise_to_handler(context, exception_var, writer) ==
    Bind(writer_obfuscate_identifier(writer, context.caught_exception_name), LAMBDA e_name :
    Bind(writer_new_var(write_stmt(e_name.w,
                                   Assignment(VarReference(exception_var.type, e_name.name, FALSE, FALSE),
                                              None, exception_var)),
                        context.except_fun_call_expr.type), LAMBDA handler_result_var :
    Bind(writer_new_var(handler_result_var.w, ErrorOrVoidType), LAMBDA handler_error_var :
        write_stmt(write_stmt(handler_error_var.w,
                              Assignment(handler_result_var.var, handler_error_var.var,
                                         context.except_fun_call_expr)),
                   ReturnStmt(handler_result_var.var, handler_error_var.var)))))

raise_stmt_to_ir2(raise_stmt, writer) ==
    Bind(expr_to_ir2(raise_stmt.expr, writer), LAMBDA exception_expr :
    Bind(first_matching_context(writer.try_except_contexts, exception_expr.var.type), LAMBDA context :
        IF IsNone(context)
        THEN write_stmt(exception_expr.w, ReturnStmt(None, exception_expr.var))
        ELSE raise_to_handler(context, exception_expr.var, exception_expr.w)))

if_stmt_to_ir2(if_stmt, writer) ==
    Bind(expr_to_ir2(if_stmt.cond_expr, writer), LAMBDA cond_var :
    Bind(stmts_to_ir2(if_stmt.if_stmts,
                      StmtWriter(cond_var.w.fun_writer, writer.current_fun_return_type)),
         LAMBDA if_branch_writer :
    Bind(stmts_to_ir2(if_stmt.else_stmts,
                      StmtWriter(if_branch_writer.fun_writer, writer.current_fun_return_type)),
         LAMBDA else_branch_writer :
        write_stmt(with_fun_writer(cond_var.w, else_branch_writer.fun_writer),
                   IfStmt(cond_var.var, if_branch_writer.stmts, else_branch_writer.stmts)))))

stmts_to_ir2(stmts, writer) ==
    IF stmts = <<>> THEN writer
    ELSE CASE Head(stmts).kind = "IfStmt" ->
                 Bind(if_stmt_to_ir2(Head(stmts), writer), LAMBDA w : stmts_to_ir2(Tail(stmts), w))
           [] Head(stmts).kind = "Assignment" ->
                 Bind(assignment_to_ir2(Head(stmts), writer), LAMBDA w : stmts_to_ir2(Tail(stmts), w))
           [] Head(stmts).kind = "UnpackingAssignment" ->
                 Bind(unpacking_assignment_to_ir2(Head(stmts), writer), LAMBDA w : stmts_to_ir2(Tail(stmts), w))
           [] Head(stmts).kind = "ReturnStmt" ->
                 Bind(return_stmt_to_ir2(Head(stmts), writer), LAMBDA w : stmts_to_ir2(Tail(stmts), w))
           [] Head(stmts).kind = "RaiseStmt" ->
                 Bind(raise_stmt_to_ir2(Head(stmts), writer), LAMBDA w : stmts_to_ir2(Tail(stmts), w))
           [] Head(stmts).kind = "Assert" ->
                 Bind(assert_to_ir2(Head(stmts), writer), LAMBDA w : stmts_to_ir2(Tail(stmts), w))
           [] Head(stmts).kind = "TryExcept" -> try_except_stmt_to_ir2(Head(stmts), Tail(stmts), writer)
           [] OTHER -> RaisedError(NotImplementedError, "Unexpected statement")

(* writer.try_except_contexts when an exception leaves                     *)
(* stmts_to_ir2(stmts, writer).  The branches of an if/else, the handler   *)
(* and the continuation are lowered with writers of their own; an          *)
(* exception raised in the body of the with statement is thrown into the   *)
(* generator of enter_try_except_context at its yield, which has no        *)
(* try/finally around it, so the pop after the yield is not run.           *)
RECURSIVE try_except_contexts_when_raised(_, _)
try_except_contexts_when_try_except_raised(try_except_stmt, then_stmts, writer) ==
    LET then_fun == then_fun_to_ir2(then_stmts, writer)
        except_fun == except_fun_to_ir2(try_except_stmt, then_fun.call_expr, then_fun.fw,
                                        writer.current_fun_return_type)
        caught_exception_type == type_to_ir2(try_except_stmt.caught_exception_type)
    IN  IF EndedRaising(then_fun) THEN writer.try_except_contexts
        ELSE IF EndedRaising(except_fun) THEN writer.try_except_contexts
        ELSE IF EndedRaising(caught_exception_type) THEN writer.try_except_contexts
        ELSE try_except_contexts_when_raised(
                 try_except_stmt.try_body,
                 enter_try_except_context(
                     with_fun_writer(writer, except_fun.fw),
                     TryExceptContext(caught_exception_type,
                                      try_except_stmt.caught_exception_name,
                                      except_fun.call_expr)))

try_except_contexts_when_raised(stmts, writer) ==
    IF Head(stmts).kind = "TryExcept"
    THEN try_except_contexts_when_try_except_raised(Head(stmts), Tail(stmts), writer)
    ELSE IF EndedRaising(stmts_to_ir2(<<Head(stmts)>>, writer))
    THEN writer.try_except_contexts
    ELSE try_except_contexts_when_raised(Tail(stmts), stmts_to_ir2(<<Head(stmts)>>, writer))

(* writer.try_except_contexts when stmts_to_ir2(stmts, writer) ends, by    *)
(* its return or by an exception.                                          *)
try_except_contexts_after(stmts, writer) ==
    IF EndedRaising(stmts_to_ir2(stmts, writer))
    THEN try_except_contexts_when_raised(stmts, writer)
    ELSE stmts_to_ir2(stmts, writer).try_except_contexts

RECURSIVE function_arg_decls_to_ir2(_, _)
function_arg_decls_to_ir2(decls, writer) ==
    IF decls = <<>> THEN [decls |-> <<>>, w |-> writer]
    ELSE Bind(function_arg_decl_to_ir2(Head(decls), writer), LAMBDA h :
         Bind(function_arg_decls_to_ir2(Tail(decls), h.w), LAMBDA t :
             [decls |-> <<h.decl>> \o t.decls, w |-> t.w]))

(* With an obfuscation map of its own for every function. *)
function_defn_to_ir2_with_map_per_function(function_defn, fw) ==
    Bind(type_to_ir2(function_defn.return_type), LAMBDA return_type :
    Bind(stmts_to_ir2(function_defn.body,
                      StmtWriter([fw EXCEPT !.obfuscated_identifiers_by_identifier = <<>>], return_type)),
         LAMBDA stmt_writer :
    Bind(function_arg_decls_to_ir2(function_defn.args, stmt_writer), LAMBDA args :
        write_function(args.w.fun_writer,
                       FunctionDefn(function_defn.name, "", args.decls, stmt_writer.stmts, return_type)))))

function_defn_to_ir2(function_defn, fw) ==
    IF "return_type" \notin DOMAIN function_defn THEN RaisedError(AttributeError, "return_type")
    ELSE
    Bind(type_to_ir2(function_defn.return_type), LAMBDA return_type :
    Bind(stmts_to_ir2(function_defn.body, StmtWriter(fw, return_type)),
         LAMBDA stmt_writer :
    Bind(function_arg_decls_to_ir2(function_defn.args, stmt_writer), LAMBDA args :
        write_function(args.w.fun_writer,
                       FunctionDefn(function_defn.name, "", args.decls, stmt_writer.stmts, return_type)))))

RECURSIVE assertions_to_ir2(_, _)
assertions_to_ir2(assertions, stmt_writer) ==
    IF assertions = <<>> THEN stmt_writer
    ELSE Bind(assert_to_ir2(Head(assertions), stmt_writer), LAMBDA w : assertions_to_ir2(Tail(assertions), w))

check_if_error_defn(custom_types) ==
    Bind(SelectSeq(custom_types, LAMBDA t : t.is_exception_class), LAMBDA exception_types :
        Build([i \in 1..Len(exception_types) |-> type_to_ir2(exception_types[i])],
              CheckIfErrorDefn([i \in 1..Len(exception_types) |->
                                   [type |-> type_to_ir2(exception_types[i]),
                                    message |-> exception_types[i].exception_message]])))

(* The body of the module, or the exception raised while converting the    *)
(* custom types.                                                            *)
module_body(custom_types, fw, stmts) ==
    IF HasRaisedIn([i \in 1..Len(custom_types) |-> type_to_ir2(custom_types[i])])
    THEN FirstRaised([i \in 1..Len(custom_types) |-> type_to_ir2(custom_types[i])])
    ELSE Bind(check_if_error_defn(custom_types), LAMBDA check_if_error :
             [i \in 1..Len(custom_types) |-> type_to_ir2(custom_types[i])]
             \o <<check_if_error>> \o fw.function_defns \o stmts)

(***************************************************************************)
(* The input modules: ir3 as the front end hands it over.  One exception   *)
(* class per name in ExceptionNames, the function g that raises E1 on 1    *)
(* and E2 on 2, and a function f whose body is built by wrapping a core    *)
(* statement in up to MaxDepth try/except and if statements, or is one of  *)
(* the bodies over lists, sets and match expressions.                      *)
(***************************************************************************)
MaxDepth == 2

ExceptionNames == {"E1", "E2"}

ExceptionType(name) ==
    ir3_CustomType(name, <<CustomTypeArgDecl("code", IntType)>>, TRUE, name \o " was raised")

x_ref == ir3_VarReference(IntType, "x", FALSE, FALSE)

y_ref == ir3_VarReference(IntType, "y", FALSE, FALSE)

v_ref == ir3_VarReference(IntType, "v", FALSE, FALSE)

s_ref == ir3_VarReference(SetType(IntType), "s", FALSE, FALSE)

e_ref(exception_name) == ir3_VarReference(ExceptionType(exception_name), "e", FALSE, FALSE)

g_ref == ir3_VarReference(FunctionType(<<IntType>>, IntType), "g", TRUE, TRUE)

constructor_ref(exception_name) ==
    ir3_VarReference(FunctionType(<<IntType>>, ExceptionType(exception_name)), exception_name, TRUE, FALSE)

CallG == ir3_FunctionCall(g_ref, <<x_ref>>)

XEquals(n) == ir3_EqualityComparison(x_ref, ir3_IntLiteral(n))

AssignCallG == ir3_Assignment(y_ref, CallG)

AssignLit == ir3_Assignment(y_ref, ir3_IntLiteral(7))

RetX == ir3_ReturnStmt(x_ref)

RetY == ir3_ReturnStmt(y_ref)

RetG == ir3_ReturnStmt(CallG)

RetLit == ir3_ReturnStmt(ir3_IntLiteral(5))

RetE(exception_name) == ir3_ReturnStmt(ir3_AttributeAccessExpr(e_ref(exception_name), "code", IntType))

Raise(exception_name) == ir3_RaiseStmt(ir3_FunctionCall(constructor_ref(exception_name), <<x_ref>>))

Conds == { XEquals(1),
           ir3_AndExpr(XEquals(1), ir3_EqualityComparison(CallG, ir3_IntLiteral(0))),
           ir3_OrExpr(XEquals(0), ir3_EqualityComparison(CallG, ir3_IntLiteral(0))) }

Cores == { <<AssignCallG>>, <<RetG>>, <<Raise("E1")>> }

Handlers(exception_name) == { <<RetLit>>, <<AssignLit>>, <<RetE(exception_name)>> }

TryWraps(block) ==
    { <<ir3_TryExcept(block, ExceptionType(t[1]), "e", t[2])>> \o t[3] :
          t \in UNION { {en} \X Handlers(en) \X {<<>>, <<RetY>>} : en \in ExceptionNames } }

IfWraps(block) ==
    { <<ir3_IfStmt(t[1], block, <<>>)>> \o t[2] : t \in Conds \X {<<>>, <<RetX>>} }

RECURSIVE BlocksOfDepth(_)
BlocksOfDepth(d) ==
    IF d = 0 THEN Cores
    ELSE UNION { TryWraps(b) \cup IfWraps(b) : b \in BlocksOfDepth(d - 1) }

(* What the front end guarantees of a function body: a variable is read    *)
(* only where it is assigned on every path, and assigned once on a path;   *)
(* no statement follows one that always returns.  [ok, defined, returns].  *)
ir3_reads(stmt) ==
    CASE stmt.kind = "ReturnStmt" /\ stmt.expr.kind = "VarReference" -> {stmt.expr.name}
      [] stmt.kind = "ReturnStmt" /\ stmt.expr.kind = "AttributeAccessExpr" -> {stmt.expr.expr.name}
      [] OTHER -> {}

ir3_rejected == [ok |-> FALSE, defined |-> {}, returns |-> FALSE]

ir3_join(t, e) ==
    IF t.returns THEN e.defined ELSE IF e.returns THEN t.defined ELSE t.defined \cap e.defined

RECURSIVE ir3_check(_, _)
ir3_check_branches(stmts, defined, t, e) ==
    IF ~t.ok \/ ~e.ok THEN ir3_rejected
    ELSE IF t.returns /\ e.returns
    THEN (IF Tail(stmts) = <<>> THEN [ok |-> TRUE, defined |-> defined, returns |-> TRUE]
          ELSE ir3_rejected)
    ELSE ir3_check(Tail(stmts), ir3_join(t, e))

ir3_check(stmts, defined) ==
    IF stmts = <<>> THEN [ok |-> TRUE, defined |-> defined, returns |-> FALSE]
    ELSE CASE Head(stmts).kind = "Assignment" ->
                 IF Head(stmts).lhs.name \in defined THEN ir3_rejected
                 ELSE ir3_check(Tail(stmts), defined \cup {Head(stmts).lhs.name})
           [] Head(stmts).kind \in {"ReturnStmt", "RaiseStmt"} ->
                 IF ir3_reads(Head(stmts)) \subseteq defined /\ Tail(stmts) = <<>>
                 THEN [ok |-> TRUE, defined |-> defined, returns |-> TRUE]
                 ELSE ir3_rejected
           [] Head(stmts).kind = "IfStmt" ->
                 ir3_check_branches(stmts, defined,
                                    ir3_check(Head(stmts).if_stmts, defined),
                                    ir3_check(Head(stmts).else_stmts, defined))
           [] Head(stmts).kind = "TryExcept" ->
                 IF Head(stmts).caught_exception_name \in defined THEN ir3_rejected
                 ELSE ir3_check_branches(
                          stmts, defined,
                          ir3_check(Head(stmts).try_body, defined),
                          Bind(ir3_check(Head(stmts).except_body,
                                         defined \cup {Head(stmts).caught_exception_name}),
                               LAMBDA e : [e EXCEPT !.defined = @ \ {Head(stmts).caught_exception_name}]))

ControlFlowBodies ==
    { b \in UNION { BlocksOfDepth(d) : d \in 1..MaxDepth } :
          ir3_check(b, {"x"}).ok /\ ir3_check(b, {"x"}).returns }

ir3_IntListSumExpr(list_expr) == [kind |-> "IntListSumExpr", type |-> IntType, list_expr |-> list_expr]

ir3_IntSetSumExpr(set_expr) == [kind |-> "IntSetSumExpr", type |-> IntType, set_expr |-> set_expr]

(* s = {x, 1} ; return sum({g(v) + x for v in s}) *)
SetComprehensionBody ==
    << ir3_Assignment(s_ref, ir3_SetExpr(IntType, <<x_ref, ir3_IntLiteral(1)>>)),
       ir3_ReturnStmt(ir3_IntSetSumExpr(
           ir3_SetComprehension(
               s_ref, v_ref,
               ir3_Binary("IntBinaryOpExpr", IntType, ir3_FunctionCall(g_ref, <<v_ref>>), x_ref, "+")))) >>

(* try: return sum([g(v) for v in [x, 1]])  except E1 as e: return 5 *)
ListComprehensionBody ==
    << ir3_TryExcept(
           << ir3_ReturnStmt(ir3_IntListSumExpr(
                  ir3_ListComprehension(ir3_ListExpr(IntType, <<x_ref, ir3_IntLiteral(1)>>), v_ref,
                                        ir3_FunctionCall(g_ref, <<v_ref>>)))) >>,
           ExceptionType("E1"), "e", <<RetLit>>) >>

(* return match(Type('int'))({ Type('T*'): g(x), Type('T'): x }) with T the matched variable *)
MatchBody ==
    << ir3_ReturnStmt(
           ir3_MatchExpr(<<ir3_TypeLiteral("int", <<>>)>>,
                         << ir3_MatchCase(<< <<"T", "*">> >>, <<"T">>, CallG),
                            ir3_MatchCase(<< <<"T">> >>, <<"T">>, x_ref) >>)) >>

CollectionBodies == { SetComprehensionBody, ListComprehensionBody, MatchBody }

FunctionBodies == ControlFlowBodies \cup CollectionBodies

G_defn ==
    ir3_FunctionDefn("g", <<FunctionArgDecl(IntType, "x")>>,
                     << ir3_IfStmt(XEquals(1), <<Raise("E1")>>, <<>>),
                        ir3_IfStmt(XEquals(2), <<Raise("E2")>>, <<>>),
                        RetX >>,
                     IntType)

F_defn(body) == ir3_FunctionDefn("f", <<FunctionArgDecl(IntType, "x")>>, body, IntType)

ModuleAssertions == << ir3_Assert(ir3_EqualityComparison(ir3_FunctionCall(g_ref, <<ir3_IntLiteral(0)>>),
                                                         ir3_IntLiteral(0)),
                                  "g(0) == 0") >>

Modules ==
    { ir3_Module(<<ExceptionType("E1"), ExceptionType("E2")>>, <<G_defn, F_defn(b)>>, ModuleAssertions) :
          b \in FunctionBodies }

(***************************************************************************)
(* module_to_ir2 as a state machine: the FunWriter is created, the         *)
(* functions are lowered one by one, then the module-level assertions,     *)
(* then the output module is assembled.                                    *)
(***************************************************************************)
FirstId == 0

Init ==
    /\ module \in Modules
    /\ pc = "new"
    /\ fun_index = 0
    /\ fun_writer = None
    /\ toplevel_stmts = <<>>
    /\ output = None
    /\ symbol_table = None
    /\ ir_function_defns = <<>>

NewFunWriter ==
    /\ pc = "new"
    /\ fun_writer' = FunWriter(FirstId)
    /\ fun_index' = 1
    /\ pc' = "functions"
    /\ UNCHANGED <<module, toplevel_stmts, output>>
    /\ UNCHANGED sema_vars

FunctionDefnToIr2 ==
    /\ pc = "functions"
    /\ fun_index <= Len(module.function_defns)
    /\ fun_writer' = function_defn_to_ir2(module.function_defns[fun_index], fun_writer)
    /\ fun_index' = fun_index + 1
    /\ UNCHANGED <<module, pc, toplevel_stmts, output>>
    /\ UNCHANGED sema_vars

AssertionsToIr2 ==
    /\ pc = "functions"
    /\ fun_index > Len(module.function_defns)
    /\ fun_writer' = assertions_to_ir2(module.assertions, StmtWriter(fun_writer, None)).fun_writer
    /\ toplevel_stmts' = assertions_to_ir2(module.assertions, StmtWriter(fun_writer, None)).stmts
    /\ pc' = "assertions"
    /\ UNCHANGED <<module, fun_index, output>>
    /\ UNCHANGED sema_vars

BuildModule ==
    /\ pc = "assertions"
    /\ output' = [kind |-> "Module", body |-> module_body(module.custom_types, fun_writer, toplevel_stmts)]
    /\ pc' = "done"
    /\ UNCHANGED <<module, fun_index, fun_writer, toplevel_stmts>>
    /\ UNCHANGED sema_vars

Next == NewFunWriter \/ FunctionDefnToIr2 \/ AssertionsToIr2 \/ BuildModule

Spec == Init /\ [][Next]_vars

(***************************************************************************)
(* Execution of ir2 code.  A value is [tag, val]: an integer, a boolean    *)
(* (val 1 or 0), an exception object of class tag carrying its code, the   *)
(* void type (the empty error channel) or the empty result channel.  An    *)
(* outcome is [returned, result, error, env, wf, calls]: wf says that      *)
(* every return statement reached so far populated exactly one channel,    *)
(* calls lists the functions entered, in order.                            *)
(***************************************************************************)
MaxInput == 2

InputValues == 0..MaxInput

IntV(n) == [tag |-> "int", val |-> n]

BoolV(b) == [tag |-> "bool", val |-> IF b THEN 1 ELSE 0]

ErrorV(class_name, code) == [tag |-> class_name, val |-> code]

VoidV == [tag |-> "void", val |-> 0]

EmptyV == [tag |-> "empty", val |-> 0]

ExactlyOneChannel(result, error) == (result # EmptyV) # (error # VoidV)

Running(env, wf, calls) ==
    [returned |-> FALSE, result |-> EmptyV, error |-> VoidV, env |-> env, wf |-> wf, calls |-> calls]

Returned(st, result, error) ==
    [returned |-> TRUE, result |-> result, error |-> error, env |-> st.env,
     wf |-> st.wf /\ ExactlyOneChannel(result, error), calls |-> st.calls]

eval_expr(expr, env) ==
    CASE expr.kind = "VarReference" -> env[expr.name]
      [] expr.kind = "IntLiteral" -> IntV(expr.ivalue)
      [] expr.kind = "BoolLiteral" -> BoolV(expr.value)
      [] expr.kind = "TypeLiteral" -> VoidV
      [] expr.kind = "EqualityComparison" -> BoolV(env[expr.lhs.name] = env[expr.rhs.name])
      [] expr.kind = "NotExpr" -> BoolV(env[expr.var.name].val = 0)
      [] expr.kind = "AttributeAccessExpr" -> IntV(env[expr.var.name].val)
      [] expr.kind = "IsInstanceExpr" -> BoolV(env[expr.var.name].tag = expr.checked_type.name)
      [] expr.kind = "SafeUncheckedCast" -> env[expr.var.name]

defn_named(defns, name) == defns[CHOOSE i \in 1..Len(defns) : defns[i].name = name]

args_env(arg_decls, arg_values) ==
    [n \in {arg_decls[i].name : i \in 1..Len(arg_decls)} |->
        arg_values[CHOOSE i \in 1..Len(arg_decls) : arg_decls[i].name = n]]

bind_call(stmt, st, r) ==
    Running((stmt.lhs.name :> r.result)
            @@ (IF IsNone(stmt.lhs2) THEN st.env ELSE (stmt.lhs2.name :> r.error) @@ st.env),
            r.wf, r.calls)

RECURSIVE exec_stmts(_, _, _)
RECURSIVE call_function(_, _, _, _)

exec_stmt(defns, stmt, st) ==
    CASE stmt.kind = "Assignment" /\ stmt.rhs.kind = "FunctionCall" ->
             bind_call(stmt, st,
                       call_function(defns, stmt.rhs.fun.name,
                                     [i \in 1..Len(stmt.rhs.args) |-> st.env[stmt.rhs.args[i].name]],
                                     st))
      [] stmt.kind = "Assignment" /\ stmt.rhs.kind # "FunctionCall" ->
             Running((stmt.lhs.name :> eval_expr(stmt.rhs, st.env)) @@ st.env, st.wf, st.calls)
      [] stmt.kind = "ReturnStmt" ->
             Returned(st,
                      IF IsNone(stmt.result) THEN EmptyV ELSE st.env[stmt.result.name],
                      IF IsNone(stmt.error) THEN VoidV ELSE st.env[stmt.error.name])
      [] stmt.kind = "IfStmt" ->
             exec_stmts(defns,
                        IF st.env[stmt.cond.name].val = 1 THEN stmt.if_stmts ELSE stmt.else_stmts,
                        st)
      [] stmt.kind = "Assert" -> st

exec_stmts(defns, stmts, st) ==
    IF stmts = <<>> THEN st
    ELSE Bind(exec_stmt(defns, Head(stmts), st), LAMBDA r :
             IF r.returned THEN r ELSE exec_stmts(defns, Tail(stmts), r))

(* The constructor of an exception class builds the exception object; any  *)
(* other callee is a function of the module.  A body that ends without a   *)
(* return statement leaves both channels empty.                            *)
call_function(defns, name, arg_values, st) ==
    IF name \in ExceptionNames
    THEN [result |-> ErrorV(name, arg_values[1].val), error |-> VoidV, wf |-> st.wf, calls |-> st.calls]
    ELSE Bind(exec_stmts(defns, defn_named(defns, name).body,
                         Running(args_env(defn_named(defns, name).args, arg_values),
                                 st.wf, Append(st.calls, name))), LAMBDA r :
             [result |-> r.result, error |-> r.error, wf |-> r.wf, calls |-> r.calls])

Call(name, arg_values) ==
    call_function(fun_writer.function_defns, name, arg_values, Running(<<>>, TRUE, <<>>))

Channels(outcome) == <<outcome.result, outcome.error>>

(***************************************************************************)
(* The lowered module, as the properties below read it.                    *)
(***************************************************************************)
ThenFunDescription == "(meta)function wrapping the code after a try-except statement"

ExceptFunDescription == "(meta)function wrapping the code in an except block"

MatchFunDescription == "(meta)function wrapping the code in a branch of a match expression"

ComprehensionFunDescription == "(meta)function wrapping the result expression in a list/set comprehension"

HelperDescriptions ==
    {ThenFunDescription, ExceptFunDescription, MatchFunDescription, ComprehensionFunDescription}

Lowered == pc = "done"

SourceBody == module.function_defns[2].body

OutputFunctions == SelectSeq(output.body, LAMBDA d : d.kind = "FunctionDefn")

FunctionsDescribed(description) == SelectSeq(OutputFunctions, LAMBDA d : d.description = description)

HelperFunctions == SelectSeq(OutputFunctions, LAMBDA d : d.description \in HelperDescriptions)

ObfuscationMap == fun_writer.obfuscated_identifiers_by_identifier

(* Every statement list of a body: the body and the branches nested in it. *)
RECURSIVE StmtLists(_)
StmtLists(stmts) ==
    {stmts} \cup UNION { StmtLists(stmts[i].if_stmts) \cup StmtLists(stmts[i].else_stmts) :
                             i \in {j \in 1..Len(stmts) : stmts[j].kind = "IfStmt"} }

FunctionStmtLists ==
    UNION { StmtLists(OutputFunctions[i].body) : i \in 1..Len(OutputFunctions) }

OutputToplevelStmts == SelectSeq(output.body, LAMBDA d : d.kind \in {"Assignment", "Assert"})

OutputStmtLists == FunctionStmtLists \cup {OutputToplevelStmts}

OutputStmts == UNION { Range(l) : l \in OutputStmtLists }

OutputExprs == { s.rhs : s \in { t \in OutputStmts : t.kind = "Assignment" } }

(* The call expressions of the output: the assigned ones, the arms of the  *)
(* match expressions and the element expressions of the comprehensions.    *)
OutputCalls ==
    { e \in OutputExprs : e.kind = "FunctionCall" }
    \cup UNION { { e.match_cases[i].expr : i \in 1..Len(e.match_cases) } :
                     e \in { m \in OutputExprs : m.kind = "MatchExpr" } }
    \cup { e.result_elem_expr : e \in { c \in OutputExprs : c.kind = "ListComprehensionExpr" } }

(***************************************************************************)
(* Properties of the lowering.                                             *)
(***************************************************************************)
RunF(x) == Call("f", <<IntV(x)>>)

RunG(x) == Call("g", <<IntV(x)>>)

ThenFun == FunctionsDescribed(ThenFunDescription)[1]

ExceptFuns == FunctionsDescribed(ExceptFunDescription)

ExceptFunNames == { ExceptFuns[i].name : i \in 1..Len(ExceptFuns) }

HandlersEntered(outcome) == SelectSeq(outcome.calls, LAMBDA n : n \in ExceptFunNames)

(* C1: in the lowered module, every return statement reached while f runs,  *)
(* in f and in every function it calls, populates exactly one of (result,   *)
(* error): never both channels, never neither.                              *)
C1_ExactlyOneChannelAtEveryReturn ==
    Lowered /\ SourceBody \in ControlFlowBodies => \A x \in InputValues : RunF(x).wf

(* The shape "try: y = g(x) except E as e: <handler> ; return y". *)
IsTryAssignShape(body) ==
    /\ Len(body) = 2
    /\ body[1].kind = "TryExcept"
    /\ body[1].try_body = <<AssignCallG>>
    /\ body[2] = RetY

(* The arguments of a handler function: the caught error for the parameter *)
(* that is the obfuscated e, the argument of f for the obfuscated x.        *)
HandlerArgs(handler, error, x) ==
    [i \in 1..Len(handler.args) |->
        IF handler.args[i].name = ObfuscationMap["e"] THEN error ELSE IntV(x)]

(* C2: for f = "try: y = g(x) except E as e: <handler>" followed by         *)
(* "return y": when g returns no error, f continues into the continuation   *)
(* with y bound to g's result; when g returns an error of class E, f        *)
(* returns what the handler function returns with e bound to that error;    *)
(* when g returns an error of another class, f returns that error with an   *)
(* empty result.                                                            *)
C2_TryExceptDispatch ==
    Lowered /\ IsTryAssignShape(SourceBody) =>
        \A x \in InputValues :
            /\ RunG(x).error = VoidV =>
                   /\ ThenFun.name \in Range(RunF(x).calls)
                   /\ Channels(RunF(x)) = Channels(Call(ThenFun.name, <<RunG(x).result>>))
            /\ RunG(x).error.tag = SourceBody[1].caught_exception_type.name =>
                   /\ HandlersEntered(RunF(x)) = <<ExceptFuns[1].name>>
                   /\ Channels(RunF(x))
                          = Channels(Call(ExceptFuns[1].name, HandlerArgs(ExceptFuns[1], RunG(x).error, x)))
            /\ RunG(x).error.tag \in ExceptionNames \ {SourceBody[1].caught_exception_type.name} =>
                   /\ HandlersEntered(RunF(x)) = <<>>
                   /\ Channels(RunF(x)) = <<EmptyV, RunG(x).error>>

(* C2 witness: the three cases happen: g returns 0 and the continuation     *)
(* returns it; g returns an E1 caught by "except E1 as e: y = 7", whose      *)
(* handler continues into the continuation; g returns an E2 that passes.    *)
C2_Witness ==
    /\ Lowered
    /\ IsTryAssignShape(SourceBody)
    /\ SourceBody[1].caught_exception_type.name = "E1"
    /\ SourceBody[1].except_body = <<AssignLit>>
    /\ Channels(RunF(0)) = <<IntV(0), VoidV>>
    /\ Channels(RunF(1)) = <<IntV(7), VoidV>>
    /\ Channels(RunF(2)) = <<EmptyV, ErrorV("E2", 2)>>

(* A try statement that is the first statement of the body of another try  *)
(* statement catching the same exception class.                             *)
IsNestedSameTypeShape(body) ==
    /\ body[1].kind = "TryExcept"
    /\ body[1].try_body[1].kind = "TryExcept"
    /\ body[1].try_body[1].caught_exception_type = body[1].caught_exception_type

(* C3: when a try statement is nested in the body of a try statement that   *)
(* catches the same exception class, an error arising in the inner body is  *)
(* received by the inner handler: the first handler function entered is the *)
(* one of the inner try statement (the handler function written last).      *)
C3_InnermostHandlerReceivesError ==
    Lowered /\ SourceBody \in ControlFlowBodies /\ IsNestedSameTypeShape(SourceBody) =>
        \A x \in InputValues :
            HandlersEntered(RunF(x)) # <<>> =>
                Head(HandlersEntered(RunF(x))) = Last(ExceptFuns).name

(* C4: when the body of f is a try statement catching E (followed at most   *)
(* by "return y"), no error of class E raised inside the try body, whether  *)
(* directly, in an if branch or in the right operand of and/or, is returned *)
(* to the caller of f.                                                      *)
C4_ErrorsInsideTryBodyAreHandled ==
    Lowered /\ SourceBody \in ControlFlowBodies /\ SourceBody[1].kind = "TryExcept" =>
        \A x \in InputValues : RunF(x).error.tag # SourceBody[1].caught_exception_type.name

(* Control cannot reach the end of stmts: its last statement is a return,   *)
(* or an if statement neither branch of which can reach its end.            *)
RECURSIVE ir2_always_returns(_)
ir2_always_returns(stmts) ==
    /\ stmts # <<>>
    /\ \/ Last(stmts).kind = "ReturnStmt"
       \/ /\ Last(stmts).kind = "IfStmt"
          /\ ir2_always_returns(Last(stmts).if_stmts)
          /\ ir2_always_returns(Last(stmts).else_stmts)

(* C6: the body of every handler function (the function wrapping an except *)
(* block) ends by returning: by its own statements or by the return of the  *)
(* checked call of the continuation.                                        *)
C6_HandlerBodyAlwaysReturns ==
    Lowered => \A i \in 1..Len(ExceptFuns) : ir2_always_returns(ExceptFuns[i].body)

CallsOf(function_defn) == { c \in OutputCalls : c.fun.name = function_defn.name }

HelperIsWellFormed(helper) ==
    /\ helper.args = [j \in 1..Len(get_unique_free_variables_in_stmts(helper.body)) |->
                         FunctionArgDecl(get_unique_free_variables_in_stmts(helper.body)[j].type,
                                         get_unique_free_variables_in_stmts(helper.body)[j].name)]
    /\ \A j, k \in 1..Len(helper.args) : j # k => helper.args[j].name # helper.args[k].name
    /\ \A c \in CallsOf(helper) :
           /\ Len(c.args) = Len(helper.args)
           /\ \A j \in 1..Len(helper.args) :
                  /\ c.args[j].name = helper.args[j].name
                  /\ c.args[j].type = helper.args[j].type
                  /\ c.fun.type.argtypes[j] = helper.args[j].type
           /\ Len(c.fun.type.argtypes) = Len(helper.args)

(* C5: the parameters of every synthesized helper function (continuation,  *)
(* handler, match arm, comprehension element) are the distinct free         *)
(* variables of its body, in their order, no name twice; every call of the  *)
(* helper passes exactly these variables in this order, with their types.   *)
C5_HelperParametersAreFreeVariables ==
    Lowered => \A i \in 1..Len(HelperFunctions) : HelperIsWellFormed(HelperFunctions[i])

(* C5 witness: the helper of the set comprehension "g(v) + x for v in s"    *)
(* has the two parameters v and x, and is called with them.                 *)
C5_Witness ==
    /\ Lowered
    /\ SourceBody = SetComprehensionBody
    /\ \E i \in 1..Len(HelperFunctions) :
           /\ HelperFunctions[i].description = ComprehensionFunDescription
           /\ [j \in 1..Len(HelperFunctions[i].args) |-> HelperFunctions[i].args[j].name]
                  = <<ObfuscationMap["v"], ObfuscationMap["x"]>>
           /\ CallsOf(HelperFunctions[i]) # {}

RECURSIVE HasSetType(_)
HasSetType(type) ==
    CASE type.kind = "SetType" -> TRUE
      [] type.kind = "ListType" -> HasSetType(type.elem_type)
      [] type.kind = "FunctionType" ->
            HasSetType(type.returns) \/ \E i \in 1..Len(type.argtypes) : HasSetType(type.argtypes[i])
      [] type.kind = "CustomType" -> \E i \in 1..Len(type.arg_types) : HasSetType(type.arg_types[i].type)
      [] OTHER -> FALSE

OutputTypes ==
    { e.type : e \in OutputExprs }
    \cup { s.lhs.type : s \in { t \in OutputStmts : t.kind = "Assignment" } }
    \cup { c.fun.type : c \in OutputCalls }
    \cup { e.loop_var.type : e \in { c \in OutputExprs : c.kind = "ListComprehensionExpr" } }
    \cup { FunctionType([j \in 1..Len(OutputFunctions[i].args) |-> OutputFunctions[i].args[j].type],
                        OutputFunctions[i].return_type) : i \in 1..Len(OutputFunctions) }
    \cup { d \in Range(output.body) : d.kind = "CustomType" }

SourceOnlyStmtKinds == {"RaiseStmt", "TryExcept"}

SourceOnlyExprKinds == {"AndExpr", "OrExpr", "SetExpr", "SetComprehension", "ListComprehension",
                        "IntSetSumExpr", "BoolSetAllExpr", "BoolSetAnyExpr"}

(* C7: the output holds no raise and no try/except statement, no and/or    *)
(* expression, no set literal, set comprehension or set type, and the       *)
(* element expression of every list comprehension is a call of a function   *)
(* synthesized for a comprehension.                                         *)
C7_OutputVocabulary ==
    Lowered =>
        /\ \A st \in OutputStmts : st.kind \notin SourceOnlyStmtKinds
        /\ \A e \in OutputExprs : e.kind \notin SourceOnlyExprKinds
        /\ \A e \in OutputExprs :
               e.kind = "ListComprehensionExpr" =>
                   /\ e.result_elem_expr.kind = "FunctionCall"
                   /\ \E i \in 1..Len(OutputFunctions) :
                          /\ OutputFunctions[i].name = e.result_elem_expr.fun.name
                          /\ OutputFunctions[i].description = ComprehensionFunDescription
        /\ \A t \in OutputTypes : ~HasSetType(t)

(* C7 witness: the lowering of "s = {x, 1} ; return sum({g(v) + x for v in  *)
(* s})": the set is built by add-to-set on a list, the comprehension runs   *)
(* over set-to-list of it and its result goes through list-to-set.          *)
C7_Witness ==
    /\ Lowered
    /\ SourceBody = SetComprehensionBody
    /\ {"AddToSetExpr", "SetToListExpr", "ListComprehensionExpr", "ListToSetExpr"}
           \subseteq { e.kind : e \in OutputExprs }
    /\ \E st \in OutputStmts :
           /\ st.kind = "Assignment"
           /\ st.lhs.name = ObfuscationMap["s"]
           /\ st.lhs.type = ListType(IntType)

IsMayFailCall(expr) == expr.kind = "FunctionCall" /\ expr.fun.is_function_that_may_throw

BindsMayFailCall(stmt) == stmt.kind = "Assignment" /\ IsMayFailCall(stmt.rhs)

IsErrorTest(stmt, error_var) ==
    /\ stmt.kind = "Assignment"
    /\ stmt.rhs = FunctionCall(fun_writer.is_error_fun_ref, <<error_var>>)

(* Position (a): result and error variable, is_error of the error variable *)
(* next, the branch on it after that.                                       *)
IsCheckedAt(stmts, i) ==
    /\ ~IsNone(stmts[i].lhs2)
    /\ i + 2 <= Len(stmts)
    /\ IsErrorTest(stmts[i + 1], stmts[i].lhs2)
    /\ stmts[i + 2].kind = "IfStmt"
    /\ stmts[i + 2].cond = stmts[i + 1].lhs

(* Position (b): the pair a handler function returns is returned as it is. *)
IsForwardedAt(stmts, i) ==
    /\ ~IsNone(stmts[i].lhs2)
    /\ stmts[i].rhs.fun.name \in ExceptFunNames
    /\ i + 1 <= Len(stmts)
    /\ stmts[i + 1] = ReturnStmt(stmts[i].lhs, stmts[i].lhs2)

NestedCalls(expr) ==
    CASE expr.kind = "MatchExpr" -> { expr.match_cases[i].expr : i \in 1..Len(expr.match_cases) }
      [] expr.kind = "ListComprehensionExpr" -> {expr.result_elem_expr}
      [] OTHER -> {}

(* C8 as stated: in every function body every call of a may-fail callee is  *)
(* bound to a result and an error variable and the statement right after    *)
(* the binding tests the error variable with is_error.                      *)
C8_EveryMayFailCallIsTested ==
    Lowered =>
        \A stmts \in FunctionStmtLists : \A i \in 1..Len(stmts) :
            /\ BindsMayFailCall(stmts[i]) =>
                   /\ ~IsNone(stmts[i].lhs2)
                   /\ i + 1 <= Len(stmts)
                   /\ IsErrorTest(stmts[i + 1], stmts[i].lhs2)
            /\ stmts[i].kind = "Assignment" =>
                   \A c \in NestedCalls(stmts[i].rhs) : ~IsMayFailCall(c)

(* C8 amended: in every function body a call of a may-fail callee other     *)
(* than is_error itself is (a) bound to a result and an error variable,     *)
(* followed by the binding of is_error(error variable) and the branch on    *)
(* it, or (b) a call of a handler function bound to a result and an error   *)
(* variable that the next statement returns unchanged, or (c) the arm of a  *)
(* match expression or the element of a comprehension, a call of the helper *)
(* synthesized for it, inside an expression that is bound as in (a).        *)
C8_MayFailCallsAreTestedOrForwarded ==
    Lowered =>
        \A stmts \in FunctionStmtLists : \A i \in 1..Len(stmts) :
            /\ BindsMayFailCall(stmts[i]) =>
                   \/ stmts[i].rhs.fun = fun_writer.is_error_fun_ref /\ IsNone(stmts[i].lhs2)
                   \/ IsCheckedAt(stmts, i)
                   \/ IsForwardedAt(stmts, i)
            /\ stmts[i].kind = "Assignment" /\ NestedCalls(stmts[i].rhs) # {} =>
                   /\ IsCheckedAt(stmts, i)
                   /\ \A c \in NestedCalls(stmts[i].rhs) :
                          \E k \in 1..Len(HelperFunctions) :
                              /\ HelperFunctions[k].name = c.fun.name
                              /\ HelperFunctions[k].description
                                     \in {MatchFunDescription, ComprehensionFunDescription}

(* C8 witness: "try: return sum([g(v) for v in [x, 1]]) except E1 as e:     *)
(* return 5" has the three positions: the call of g in the helper is        *)
(* tested, the comprehension holding the helper call is tested, and the     *)
(* handler call in its error branch is forwarded.                           *)
C8_Witness ==
    /\ Lowered
    /\ SourceBody = ListComprehensionBody
    /\ \E stmts \in FunctionStmtLists : \E i \in 1..Len(stmts) :
           BindsMayFailCall(stmts[i]) /\ stmts[i].rhs.fun.name = "g" /\ IsCheckedAt(stmts, i)
    /\ \E stmts \in FunctionStmtLists : \E i \in 1..Len(stmts) :
           /\ stmts[i].kind = "Assignment"
           /\ stmts[i].rhs.kind = "ListComprehensionExpr"
           /\ IsCheckedAt(stmts, i)
    /\ \E stmts \in FunctionStmtLists : \E i \in 1..Len(stmts) :
           BindsMayFailCall(stmts[i]) /\ IsForwardedAt(stmts, i)

HasWriter == pc # "new"

LoweringStarts(index) == pc = "functions" /\ fun_index = index

GeneratedNames == { ObfuscationMap[n] : n \in DOMAIN ObfuscationMap }

SourceNames == {"x", "y", "e", "v", "s", "T", "z"}

SynthesizedNames ==
    { HelperFunctions[i].name : i \in 1..Len(HelperFunctions) } \cup {fun_writer.is_error_fun_ref.name}

SourceGlobalNames ==
    { module.function_defns[i].name : i \in 1..Len(module.function_defns) }
    \cup { module.custom_types[i].name : i \in 1..Len(module.custom_types) }

(* C10: obfuscating a name that has an entry returns the entry and changes  *)
(* nothing; two names never share a generated name, and a name obfuscated   *)
(* for the first time gets a name no other has; every global function       *)
(* reference of the output carries a source name, or the name of a          *)
(* synthesized function, never an obfuscated one; the source functions      *)
(* keep their names.                                                        *)
C10_ObfuscationIsMemoizedAndInjective ==
    HasWriter =>
        /\ \A n \in DOMAIN ObfuscationMap :
               obfuscate_identifier(fun_writer, n) = [name |-> ObfuscationMap[n], fw |-> fun_writer]
        /\ \A n, m \in DOMAIN ObfuscationMap : n # m => ObfuscationMap[n] # ObfuscationMap[m]
        /\ \A n \in SourceNames \ DOMAIN ObfuscationMap :
               obfuscate_identifier(fun_writer, n).name \notin GeneratedNames
        /\ Lowered =>
               /\ \A c \in OutputCalls :
                      c.fun.is_global_function =>
                          /\ c.fun.name \notin GeneratedNames
                          /\ c.fun.name \in SourceGlobalNames \cup SynthesizedNames
               /\ [i \in 1..Len(FunctionsDescribed("")) |-> FunctionsDescribed("")[i].name]
                      = [i \in 1..Len(module.function_defns) |-> module.function_defns[i].name]

(* C10 witness: x, y and e have three different generated names, and the    *)
(* lowered f calls g and the constructor E1 under their source names.       *)
C10_Witness ==
    /\ Lowered
    /\ {"x", "y", "e"} \subseteq DOMAIN ObfuscationMap
    /\ Cardinality({ObfuscationMap["x"], ObfuscationMap["y"], ObfuscationMap["e"]}) = 3
    /\ {"g", "E1"} \subseteq { c.fun.name : c \in CallsOf(defn_named(OutputFunctions, "f"))
                                                      \cup OutputCalls }

OutputFunctionNames == { OutputFunctions[i].name : i \in 1..Len(OutputFunctions) }

(* The names a statement assigns. *)
TargetNames(stmt) ==
    CASE stmt.kind = "Assignment" ->
            {stmt.lhs.name} \cup (IF IsNone(stmt.lhs2) THEN {} ELSE {stmt.lhs2.name})
      [] stmt.kind = "UnpackingAssignment" -> { stmt.lhs_list[i].name : i \in 1..Len(stmt.lhs_list) }
      [] OTHER -> {}

(* The places of the output where statements stand: the function (0 for   *)
(* the top level of the module), the statement list and the position.       *)
StmtSites ==
    { [fun |-> 0, stmts |-> OutputToplevelStmts, pos |-> k] : k \in 1..Len(OutputToplevelStmts) }
    \cup UNION { UNION { { [fun |-> i, stmts |-> l, pos |-> k] : k \in 1..Len(l) }
                             : l \in StmtLists(OutputFunctions[i].body) }
                     : i \in 1..Len(OutputFunctions) }

AssignedNames == UNION { TargetNames(site.stmts[site.pos]) : site \in StmtSites }

ParameterNames ==
    UNION { { OutputFunctions[i].args[j].name : j \in 1..Len(OutputFunctions[i].args) }
                : i \in 1..Len(OutputFunctions) }

LoopVarNames == { e.loop_var.name : e \in { c \in OutputExprs : c.kind = "ListComprehensionExpr" } }

VariableNames == AssignedNames \cup ParameterNames \cup LoopVarNames

(* The variables Pass A itself introduces: assigned, and not the name of a  *)
(* source identifier.                                                        *)
TemporaryNames == AssignedNames \ GeneratedNames

SitesAssigning(name) == { site \in StmtSites : name \in TargetNames(site.stmts[site.pos]) }

DrawnNames == { generate_identifier(k) : k \in FirstId..(fun_writer.next_id - 1) }

(* C11: every name drawn from the identifier generator is given to one    *)
(* entity: the function definitions of the output have pairwise different  *)
(* names, no variable has the name of a function, a variable Pass A         *)
(* introduces is assigned in one function only and once in a statement      *)
(* list, two source identifiers never share an obfuscated name, and the     *)
(* generated names of the output are exactly the names drawn.               *)
C11_GeneratedNamesAreDistinct ==
    Lowered =>
        /\ \A i, j \in 1..Len(OutputFunctions) :
               i # j => OutputFunctions[i].name # OutputFunctions[j].name
        /\ VariableNames \cap OutputFunctionNames = {}
        /\ \A n \in TemporaryNames : \A s1, s2 \in SitesAssigning(n) :
               /\ s1.fun = s2.fun
               /\ s1.stmts = s2.stmts => s1.pos = s2.pos
        /\ \A n, m \in DOMAIN ObfuscationMap : n # m => ObfuscationMap[n] # ObfuscationMap[m]
        /\ (OutputFunctionNames \ SourceGlobalNames) \cup VariableNames \cup GeneratedNames
               = DrawnNames

(* C11 witness: a lowered module with the is_error function, three helper  *)
(* functions, three obfuscated source identifiers and temporaries.          *)
C11_Witness ==
    /\ Lowered
    /\ Len(HelperFunctions) >= 3
    /\ Cardinality(DOMAIN ObfuscationMap) >= 3
    /\ Cardinality(TemporaryNames) >= 3
    /\ Cardinality(DrawnNames) = fun_writer.next_id - FirstId

(***************************************************************************)
(* The code generator (lowir.py).  Emitted text is a sequence of tokens,   *)
(* the pieces of the format strings and the names put into them, white     *)
(* space left out.  What a to_cpp returns is a result: the text, or the     *)
(* exception raised while it was computed.                                  *)
(***************************************************************************)
CodegenError == "CodegenError"

AssertionError == "AssertionError"

KeyError == "KeyError"

Text(tokens) == [raised |-> "", message |-> <<>>, text |-> tokens]

Raises(error_class, message) == [raised |-> error_class, message |-> message, text |-> <<>>]

HasRaised(result) == result.raised # ""

(* a + b of two strings computed in this order: the first raise wins. *)
Cat(a, b) ==
    IF HasRaised(a) THEN a
    ELSE IF HasRaised(b) THEN b
    ELSE Text(a.text \o b.text)

RECURSIVE CatAll(_)
CatAll(results) ==
    IF results = <<>> THEN Text(<<>>) ELSE Cat(Head(results), CatAll(Tail(results)))

(* ', '.join(results) *)
RECURSIVE JoinComma(_)
JoinComma(results) ==
    IF results = <<>> THEN Text(<<>>)
    ELSE IF Len(results) = 1 THEN Head(results)
    ELSE Cat(Cat(Head(results), Text(<<",">>)), JoinComma(Tail(results)))

(* types.ExprKind and the types of the code generator. *)
ExprKind_BOOL == "BOOL"

ExprKind_TYPE == "TYPE"

ExprKind_TEMPLATE == "TEMPLATE"

types_BoolType == [kind |-> ExprKind_BOOL]

types_TypeType == [kind |-> ExprKind_TYPE]

types_FunctionType(argtypes, returns) ==
    [kind |-> ExprKind_TEMPLATE, argtypes |-> argtypes, returns |-> returns]

types_ListType(elem_type) == [kind |-> ExprKind_TYPE, elem_type |-> elem_type]

(* Names are sequences of characters, so that str.title() and               *)
(* str.replace("_", "") are computed on them.                               *)
LowerCase == <<"a", "b", "c", "d", "e", "f", "g", "h", "i", "j", "k", "l", "m",
               "n", "o", "p", "q", "r", "s", "t", "u", "v", "w", "x", "y", "z">>

UpperCase == <<"A", "B", "C", "D", "E", "F", "G", "H", "I", "J", "K", "L", "M",
               "N", "O", "P", "Q", "R", "S", "T", "U", "V", "W", "X", "Y", "Z">>

IsLower(c) == \E i \in 1..Len(LowerCase) : LowerCase[i] = c

IsUpper(c) == \E i \in 1..Len(UpperCase) : UpperCase[i] = c

ToUpper(c) == UpperCase[CHOOSE i \in 1..Len(LowerCase) : LowerCase[i] = c]

ToLower(c) == LowerCase[CHOOSE i \in 1..Len(UpperCase) : UpperCase[i] = c]

(* str.title(): the first cased character of every run of cased characters  *)
(* in upper case, the others of the run in lower case.                      *)
RECURSIVE str_title(_, _)
str_title(chars, previous_is_cased) ==
    IF chars = <<>> THEN <<>>
    ELSE IF IsLower(Head(chars))
         THEN <<IF previous_is_cased THEN Head(chars) ELSE ToUpper(Head(chars))>>
              \o str_title(Tail(chars), TRUE)
    ELSE IF IsUpper(Head(chars))
         THEN <<IF previous_is_cased THEN ToLower(Head(chars)) ELSE Head(chars)>>
              \o str_title(Tail(chars), TRUE)
    ELSE <<Head(chars)>> \o str_title(Tail(chars), FALSE)

(* str.replace(old, "") for a one-character old. *)
str_remove(chars, old) == SelectSeq(chars, LAMBDA c : c # old)

RECURSIVE str_join(_)
str_join(chars) == IF chars = <<>> THEN "" ELSE Head(chars) \o str_join(Tail(chars))

(* The name as it is, for every kind. *)
identifier_to_cpp_keeps_name(type, name) == Text(<<str_join(name)>>)

identifier_to_cpp(type, name) ==
    IF type.kind = ExprKind_BOOL THEN Text(<<str_join(name)>>)
    ELSE IF type.kind \in {ExprKind_TYPE, ExprKind_TEMPLATE}
         THEN Text(<<str_join(str_remove(str_title(name, FALSE), "_"))>>)
    ELSE Raises(NotImplementedError, <<"Unsupported kind: ", type.kind>>)

RECURSIVE type_to_template_param_declaration(_)
type_to_template_param_declaration(type) ==
    IF type.kind = ExprKind_BOOL THEN Text(<<"bool">>)
    ELSE IF type.kind = ExprKind_TYPE THEN Text(<<"typename">>)
    ELSE IF type.kind = ExprKind_TEMPLATE
         THEN Cat(Cat(Text(<<"template", "<">>),
                      JoinComma([i \in 1..Len(type.argtypes) |->
                                    type_to_template_param_declaration(type.argtypes[i])])),
                  Text(<<">", "class">>))
    ELSE Raises(NotImplementedError, <<"Unsupported argument kind: ", type.kind>>)

(* a evaluated first, then b: the value is b's unless a raised. *)
Then(a, b) == IF HasRaised(a) THEN a ELSE b

(***************************************************************************)
(* Expressions of the code generator.  A name is a character sequence and   *)
(* a cxx_name a string; the empty one stands for a missing (None) one, as   *)
(* the code tests both by truth value.                                      *)
(***************************************************************************)
lowir_Literal(value, type) == [kind |-> "lowir.Literal", type |-> type, value |-> value]

lowir_TypeLiteral(cpp_type) ==
    [kind |-> "lowir.TypeLiteral", type |-> types_TypeType, cpp_type |-> cpp_type]

lowir_EqualityComparison(lhs, rhs) ==
    [kind |-> "lowir.EqualityComparison", type |-> types_BoolType, lhs |-> lhs, rhs |-> rhs]

lowir_FunctionCall(fun_expr, args) ==
    [kind |-> "lowir.FunctionCall", type |-> fun_expr.type.returns, fun_expr |-> fun_expr, args |-> args]

lowir_VarReference(type, name, cxx_name) ==
    [kind |-> "lowir.VarReference", type |-> type, name |-> name, cxx_name |-> cxx_name]

lowir_ListExpr(type, elem_exprs) ==
    [kind |-> "lowir.ListExpr", type |-> type, elem_exprs |-> elem_exprs]

(* The assertions of FunctionCall.__init__. *)
FunctionCall_init_asserts(fun_expr, args) ==
    /\ fun_expr.type.kind = ExprKind_TEMPLATE
    /\ Len(fun_expr.type.argtypes) = Len(args)
    /\ fun_expr.type.returns.kind \in {ExprKind_BOOL, ExprKind_TYPE, ExprKind_TEMPLATE}

(* Expr.references_any_of.  A reference whose name cannot be converted      *)
(* raises in the code; here it references nothing.                          *)
RECURSIVE references_any_of(_, _)
references_any_of(expr, variables) ==
    IF expr.kind \in {"lowir.Literal", "lowir.TypeLiteral"} THEN FALSE
    ELSE IF expr.kind = "lowir.EqualityComparison"
         THEN references_any_of(expr.lhs, variables) \/ references_any_of(expr.rhs, variables)
    ELSE IF expr.kind = "lowir.FunctionCall"
         THEN \/ references_any_of(expr.fun_expr, variables)
              \/ \E i \in 1..Len(expr.args) : references_any_of(expr.args[i], variables)
    ELSE IF expr.kind = "lowir.VarReference"
         THEN IF expr.name # <<>>
              THEN \E v \in variables : identifier_to_cpp(expr.type, expr.name).text = <<v>>
              ELSE expr.cxx_name \in variables
    ELSE \E i \in 1..Len(expr.elem_exprs) : references_any_of(expr.elem_exprs[i], variables)

VarReference_to_cpp(expr) ==
    IF expr.name # <<>> THEN identifier_to_cpp(expr.type, expr.name)
    ELSE Text(<<expr.cxx_name>>)

Literal_to_cpp(expr) == Text(<<IF expr.value THEN "true" ELSE "false">>)

TypeLiteral_to_cpp(expr) == Text(<<expr.cpp_type>>)

(* Every call qualified as the outermost one is. *)
FunctionCall_format_ignoring_nesting(kind, is_nested_call, cpp_fun, template_params) ==
    IF kind = ExprKind_BOOL
    THEN Text(cpp_fun \o <<"<">> \o template_params \o <<">", "::value">>)
    ELSE Text(<<"typename">> \o cpp_fun \o <<"<">> \o template_params \o <<">", "::type">>)

(* The last lines of FunctionCall.to_cpp: the text chosen by the kind of    *)
(* the call's type and by its position.                                     *)
FunctionCall_format(kind, is_nested_call, cpp_fun, template_params) ==
    IF kind = ExprKind_BOOL
    THEN IF is_nested_call
         THEN Raises(AssertionError, <<>>)
         ELSE Text(cpp_fun \o <<"<">> \o template_params \o <<">", "::value">>)
    ELSE IF kind \in {ExprKind_TYPE, ExprKind_TEMPLATE}
         THEN IF is_nested_call
              THEN Text(cpp_fun \o <<"<">> \o template_params \o <<">", "::template", "type">>)
              ELSE Text(<<"typename">> \o cpp_fun \o <<"<">> \o template_params \o <<">", "::type">>)
    ELSE Raises(NotImplementedError, <<"Type kind: ", kind>>)

RECURSIVE Expr_to_cpp(_, _)
RECURSIVE FunctionCall_to_cpp(_, _)
RECURSIVE EqualityComparison_to_cpp(_)
RECURSIVE ListExpr_to_cpp(_)

FunctionCall_to_cpp(expr, is_nested_call) ==
    Bind(JoinComma([i \in 1..Len(expr.args) |-> Expr_to_cpp(expr.args[i], FALSE)]),
         LAMBDA template_params :
    Bind(Expr_to_cpp(expr.fun_expr, expr.fun_expr.kind = "lowir.FunctionCall"),
         LAMBDA cpp_fun :
    Then(template_params, Then(cpp_fun,
         FunctionCall_format(expr.type.kind, is_nested_call, cpp_fun.text, template_params.text)))))

EqualityComparison_to_cpp(expr) ==
    Bind(Expr_to_cpp(expr.lhs, FALSE), LAMBDA lhs_cpp_meta_expr :
    Bind(Expr_to_cpp(expr.rhs, FALSE), LAMBDA rhs_cpp_meta_expr :
    Then(lhs_cpp_meta_expr, Then(rhs_cpp_meta_expr,
         IF expr.lhs.type.kind = ExprKind_BOOL
         THEN Text(<<"(">> \o lhs_cpp_meta_expr.text \o <<")", "==", "(">>
                   \o rhs_cpp_meta_expr.text \o <<")">>)
         ELSE IF expr.lhs.type.kind = ExprKind_TYPE
              THEN Text(<<"std::is_same<">> \o lhs_cpp_meta_expr.text \o <<",">>
                        \o rhs_cpp_meta_expr.text \o <<">", "::value">>)
         ELSE Raises(KeyError, <<expr.lhs.type.kind>>)))))

ListExpr_to_cpp(expr) ==
    Bind(JoinComma([i \in 1..Len(expr.elem_exprs) |-> Expr_to_cpp(expr.elem_exprs[i], FALSE)]),
         LAMBDA template_params :
    Then(template_params,
         IF expr.type.elem_type.kind = ExprKind_BOOL
         THEN Text(<<"BoolList<">> \o template_params.text \o <<">">>)
         ELSE IF expr.type.elem_type.kind = ExprKind_TYPE
              THEN Text(<<"List<">> \o template_params.text \o <<">">>)
         ELSE Raises(KeyError, <<expr.type.elem_type.kind>>)))

(* expr.to_cpp(), and expr.to_cpp(is_nested_call=True) of a call. *)
Expr_to_cpp(expr, is_nested_call) ==
    IF expr.kind = "lowir.Literal" THEN Literal_to_cpp(expr)
    ELSE IF expr.kind = "lowir.TypeLiteral" THEN TypeLiteral_to_cpp(expr)
    ELSE IF expr.kind = "lowir.VarReference" THEN VarReference_to_cpp(expr)
    ELSE IF expr.kind = "lowir.EqualityComparison" THEN EqualityComparison_to_cpp(expr)
    ELSE IF expr.kind = "lowir.ListExpr" THEN ListExpr_to_cpp(expr)
    ELSE FunctionCall_to_cpp(expr, is_nested_call)

(***************************************************************************)
(* Statements of the code generator.                                        *)
(***************************************************************************)
lowir_StaticAssert(expr, message) == [kind |-> "lowir.StaticAssert", expr |-> expr, message |-> message]

lowir_Assignment(lhs, rhs) == [kind |-> "lowir.Assignment", lhs |-> lhs, rhs |-> rhs]

lowir_FunctionArgDecl(type, name) == [kind |-> "lowir.FunctionArgDecl", type |-> type, name |-> name]

lowir_TypePatternLiteral(cxx_pattern) == [kind |-> "lowir.TypePatternLiteral", cxx_pattern |-> cxx_pattern]

(* The last such parameter instead of the first. *)
RECURSIVE last_usable_arg(_, _)
last_usable_arg(args, i) ==
    IF i > Len(args) THEN 0
    ELSE IF last_usable_arg(args, i + 1) # 0 THEN last_usable_arg(args, i + 1)
    ELSE IF args[i].type.kind \in {ExprKind_BOOL, ExprKind_TYPE} THEN i
    ELSE 0

(* Any parameter taken as usable. *)
first_arg_of_any_kind(args, i) == IF i > Len(args) THEN 0 ELSE i

(* The first parameter the assertion can be tied to, with its wrapper; 0    *)
(* when there is none.                                                      *)
RECURSIVE first_usable_arg(_, _)
first_usable_arg(args, i) ==
    IF i > Len(args) THEN 0
    ELSE IF args[i].type.kind \in {ExprKind_BOOL, ExprKind_TYPE} THEN i
    ELSE first_usable_arg(args, i + 1)

(* lowir.py 63-65: the error of an assertion that cannot be deferred. *)
cannot_defer(function_name) ==
    Raises(CodegenError,
           <<"Unable to convert to C++ an assertion in the function ", function_name,
             " because it's a constant expression and ", function_name,
             " only has functions as params.">>)

(* lowir.py 52-65: the assertion tied to parameter i, or the error. *)
StaticAssert_deferred(stmt, args, function_name, i) ==
    IF i = 0 THEN cannot_defer(function_name)
    ELSE Cat(Cat(Cat(Cat(Text(<<"static_assert(">>),
                         Text(<<IF args[i].type.kind = ExprKind_BOOL
                                THEN "AlwaysTrueFromBool<" ELSE "AlwaysTrueFromType<">>)),
                     Cat(identifier_to_cpp(args[i].type, args[i].name),
                         Text(<<">", "::value", "&&">>))),
                 Expr_to_cpp(stmt.expr, FALSE)),
             Text(<<",", stmt.message, ");">>))

(* StaticAssert.to_cpp; is_module_level stands for the None passed as       *)
(* enclosing_function_defn_args and enclosing_function_defn_name.           *)
StaticAssert_to_cpp(stmt, is_module_level, enclosing_function_defn_args, enclosing_function_defn_name) ==
    Bind(IF is_module_level THEN Text(<<>>)
         ELSE CatAll([i \in 1..Len(enclosing_function_defn_args) |->
                        identifier_to_cpp(enclosing_function_defn_args[i].type,
                                          enclosing_function_defn_args[i].name)]),
         LAMBDA bound_variables :
    Then(bound_variables,
    IF \/ is_module_level
       \/ enclosing_function_defn_args = <<>>
       \/ references_any_of(stmt.expr, {bound_variables.text[i] : i \in 1..Len(bound_variables.text)})
    THEN Cat(Cat(Text(<<"static_assert(">>), Expr_to_cpp(stmt.expr, FALSE)),
             Text(<<",", stmt.message, ");">>))
    ELSE StaticAssert_deferred(stmt, enclosing_function_defn_args, enclosing_function_defn_name,
                               first_usable_arg(enclosing_function_defn_args, 1))))

(* _generate_identifiers(prefix), as the generator's state: the name the    *)
(* next draw gives is prefix + str(x).                                      *)
generate_identifiers(prefix) == [prefix |-> prefix, x |-> FirstId]

next_identifier(generator) == generator.prefix \o ToString(generator.x)

advance(generator) == [generator EXCEPT !.x = @ + 1]

(* The generator after n draws, and the names they gave. *)
advance_by(generator, n) == [generator EXCEPT !.x = @ + n]

drawn_identifiers(generator, n) == [i \in 1..n |-> generator.prefix \o ToString(generator.x + i - 1)]

(* What to_cpp_internal gives back: its result and the two generators as    *)
(* it leaves them.                                                          *)
Emitted(result, helper_identifier_generator, param_identifier_generator) ==
    [result |-> result, helper_identifier_generator |-> helper_identifier_generator, param_identifier_generator |-> param_identifier_generator]

(* lowir.py 106-107 *)
template_args_decl_of(argtypes, template_arg_names) ==
    JoinComma([i \in 1..Len(argtypes) |->
                  Cat(type_to_template_param_declaration(argtypes[i]), Text(<<template_arg_names[i]>>))])

(* lowir.py 108-112 and 199-203 *)
return_assignment_cxx_name(kind) ==
    IF kind = ExprKind_BOOL THEN Text(<<"value">>)
    ELSE IF kind \in {ExprKind_TYPE, ExprKind_TEMPLATE} THEN Text(<<"type">>)
    ELSE Raises(KeyError, <<kind>>)

(* The struct named as the assignment's left-hand side, whatever it is. *)
template_assignment_text_without_helper(lhs_cxx_name, template_args_decl, template_arg_names, inner, helper_cxx_name) ==
    Text(<<"template", "<">> \o template_args_decl \o <<">", "struct", lhs_cxx_name, "{">>
         \o inner \o <<"}", ";">>)

(* lowir.py 120-142 *)
template_assignment_text(lhs_cxx_name, template_args_decl, template_arg_names, inner, helper_cxx_name) ==
    IF lhs_cxx_name = "type"
    THEN Text(<<"template", "<">> \o template_args_decl \o <<">", "struct", helper_cxx_name, "{">>
              \o inner \o <<"}", ";">>
              \o <<"template", "<">> \o template_args_decl \o <<">", "using", "type", "=", helper_cxx_name, "<">>
              \o JoinComma([i \in 1..Len(template_arg_names) |-> Text(<<template_arg_names[i]>>)]).text
              \o <<">", ";">>)
    ELSE Text(<<"template", "<">> \o template_args_decl \o <<">", "struct", lhs_cxx_name, "{">>
              \o inner \o <<"}", ";">>)

RECURSIVE Assignment_to_cpp_internal(_, _, _, _, _)
RECURSIVE Assignment_to_cpp_template(_, _, _, _, _, _)

(* The TEMPLATE arm of to_cpp_internal, the parameter names drawn. *)
Assignment_to_cpp_template(type, lhs_cxx_name, rhs, helper_identifier_generator, param_identifier_generator, template_arg_names) ==
    Bind(template_args_decl_of(type.argtypes, template_arg_names), LAMBDA template_args_decl :
    Bind(return_assignment_cxx_name(type.returns.kind), LAMBDA inner_lhs_cxx_name :
    IF HasRaised(template_args_decl)
    THEN Emitted(template_args_decl, helper_identifier_generator, param_identifier_generator)
    ELSE IF HasRaised(inner_lhs_cxx_name)
    THEN Emitted(inner_lhs_cxx_name, helper_identifier_generator, param_identifier_generator)
    ELSE IF ~FunctionCall_init_asserts(rhs, template_arg_names)
    THEN Emitted(Raises(AssertionError, <<>>), helper_identifier_generator, param_identifier_generator)
    ELSE Bind(Assignment_to_cpp_internal(
                  type.returns,
                  inner_lhs_cxx_name.text[1],
                  lowir_FunctionCall(rhs, [i \in 1..Len(template_arg_names) |->
                                              lowir_VarReference(type.argtypes[i], <<>>, template_arg_names[i])]),
                  helper_identifier_generator,
                  param_identifier_generator),
              LAMBDA cpp_inner_assignment :
         IF HasRaised(cpp_inner_assignment.result) THEN cpp_inner_assignment
         ELSE Emitted(template_assignment_text(lhs_cxx_name, template_args_decl.text, template_arg_names,
                                               cpp_inner_assignment.result.text,
                                               next_identifier(cpp_inner_assignment.helper_identifier_generator)),
                      IF lhs_cxx_name = "type"
                      THEN advance(cpp_inner_assignment.helper_identifier_generator)
                      ELSE cpp_inner_assignment.helper_identifier_generator,
                      cpp_inner_assignment.param_identifier_generator))))

(* Assignment.to_cpp_internal *)
Assignment_to_cpp_internal(type, lhs_cxx_name, rhs, helper_identifier_generator, param_identifier_generator) ==
    IF type.kind = ExprKind_BOOL
    THEN Emitted(Cat(Cat(Text(<<"static", "constexpr", "bool", lhs_cxx_name, "=">>), Expr_to_cpp(rhs, FALSE)),
                     Text(<<";">>)),
                 helper_identifier_generator, param_identifier_generator)
    ELSE IF type.kind = ExprKind_TYPE
    THEN Emitted(Cat(Cat(Text(<<"using", lhs_cxx_name, "=">>), Expr_to_cpp(rhs, FALSE)), Text(<<";">>)),
                 helper_identifier_generator, param_identifier_generator)
    ELSE IF type.kind = ExprKind_TEMPLATE
    THEN Assignment_to_cpp_template(type, lhs_cxx_name, rhs, helper_identifier_generator,
                                    advance_by(param_identifier_generator, Len(type.argtypes)),
                                    drawn_identifiers(param_identifier_generator, Len(type.argtypes)))
    ELSE Emitted(Raises(NotImplementedError, <<"Unexpected expression type kind: ", type.kind>>),
                 helper_identifier_generator, param_identifier_generator)

(* Assignment.to_cpp *)
Assignment_to_cpp(stmt) ==
    Bind(VarReference_to_cpp(stmt.lhs), LAMBDA lhs_cpp :
    Then(lhs_cpp,
         Assignment_to_cpp_internal(stmt.lhs.type, lhs_cpp.text[1], stmt.rhs,
                                    generate_identifiers(lhs_cpp.text[1] \o "_Helper"),
                                    generate_identifiers("Param_")).result))

(***************************************************************************)
(* Function definitions of the code generator.  An optional pattern list    *)
(* is a record: none for None, else the list in elems.                      *)
(***************************************************************************)
NoPatterns == [none |-> TRUE, elems |-> <<>>]

Patterns(elems) == [none |-> FALSE, elems |-> elems]

SetOfSeq(seq) == { seq[i] : i \in 1..Len(seq) }

(* lowir.py 188-192: args_set == patterns_set *)
specializes_nothing(cxx_patterns, arg_cxx_names) == SetOfSeq(arg_cxx_names) = SetOfSeq(cxx_patterns)

(* The return assignment put first. *)
with_return_assignment_first(asserts_and_assignments, return_assignment) ==
    <<return_assignment>> \o asserts_and_assignments

(* lowir.py 207 *)
with_return_assignment(asserts_and_assignments, return_assignment) ==
    asserts_and_assignments \o <<return_assignment>>

(* FunctionSpecialization.__init__; raised is the exception of a            *)
(* construction that fails.                                                 *)
lowir_FunctionSpecialization(args, patterns, asserts_and_assignments, expression) ==
    Bind(CatAll([i \in 1..Len(args) |-> identifier_to_cpp(args[i].type, args[i].name)]), LAMBDA arg_cxx_names :
    Bind(return_assignment_cxx_name(expression.type.kind), LAMBDA cxx_name :
    [kind |-> "lowir.FunctionSpecialization",
     raised |-> IF ~patterns.none /\ HasRaised(arg_cxx_names) THEN arg_cxx_names.raised ELSE cxx_name.raised,
     args |-> args,
     expr |-> expression,
     patterns |-> IF patterns.none THEN NoPatterns
                  ELSE IF specializes_nothing([i \in 1..Len(patterns.elems) |-> patterns.elems[i].cxx_pattern],
                                              arg_cxx_names.text)
                       THEN NoPatterns
                  ELSE patterns,
     asserts_and_assignments |->
         IF HasRaised(cxx_name) THEN asserts_and_assignments
         ELSE with_return_assignment(asserts_and_assignments,
                                     lowir_Assignment(lowir_VarReference(expression.type, <<>>, cxx_name.text[1]),
                                                      expression)),
     type |-> types_FunctionType([i \in 1..Len(args) |-> args[i].type], expression.type)]))

is_main_definition(specialization) == specialization.patterns.none

(* lowir.py 218-219 and 267-268 *)
template_args_of(args) ==
    JoinComma([i \in 1..Len(args) |->
                  Cat(type_to_template_param_declaration(args[i].type),
                      identifier_to_cpp(args[i].type, args[i].name))])

(* lowir.py 214-217: the statements of the body, each by its own to_cpp. *)
asserts_and_assignments_to_cpp(specialization, original_name) ==
    CatAll([i \in 1..Len(specialization.asserts_and_assignments) |->
               IF specialization.asserts_and_assignments[i].kind = "lowir.StaticAssert"
               THEN StaticAssert_to_cpp(specialization.asserts_and_assignments[i], FALSE,
                                        specialization.args, original_name)
               ELSE Assignment_to_cpp(specialization.asserts_and_assignments[i])])

(* FunctionSpecialization.to_cpp *)
FunctionSpecialization_to_cpp(specialization, original_name, cxx_name) ==
    Bind(asserts_and_assignments_to_cpp(specialization, original_name), LAMBDA asserts_and_assignments_str :
    Bind(template_args_of(specialization.args), LAMBDA template_args :
    Then(asserts_and_assignments_str, Then(template_args,
         IF ~specialization.patterns.none
         THEN Text(<<"template", "<">> \o template_args.text \o <<">", "struct", cxx_name, "<">>
                   \o JoinComma([i \in 1..Len(specialization.patterns.elems) |->
                                    Text(<<specialization.patterns.elems[i].cxx_pattern>>)]).text
                   \o <<">", "{">> \o asserts_and_assignments_str.text \o <<"}", ";">>)
         ELSE Text(<<"template", "<">> \o template_args.text \o <<">", "struct", cxx_name, "{">>
                   \o asserts_and_assignments_str.text \o <<"}", ";">>)))))

(* FunctionDefn.__init__, for a definition given by name (original_name     *)
(* None); main_definition is None or a specialization.                      *)
lowir_FunctionDefn(return_type, args, main_definition, specializations, name) ==
    [kind |-> "lowir.FunctionDefn",
     type |-> types_FunctionType([i \in 1..Len(args) |-> args[i].type], return_type),
     name |-> name,
     cxx_name |-> "",
     original_name |-> name,
     args |-> args,
     main_definition |-> main_definition,
     specializations |-> specializations]

(* The assertions of FunctionDefn.__init__. *)
FunctionDefn_init_asserts(main_definition, specializations, name) ==
    /\ name # <<>>
    /\ main_definition # None \/ specializations # <<>>
    /\ main_definition = None \/ main_definition.patterns.none

(* FunctionDefn.to_cpp *)
FunctionDefn_to_cpp(function_defn) ==
    Bind(IF function_defn.name # <<>>
         THEN identifier_to_cpp(function_defn.type, function_defn.name)
         ELSE Text(<<function_defn.cxx_name>>),
         LAMBDA metafunction_name :
    Then(metafunction_name,
         Cat(IF function_defn.main_definition # None
             THEN FunctionSpecialization_to_cpp(function_defn.main_definition,
                                                str_join(function_defn.original_name),
                                                metafunction_name.text[1])
             ELSE Cat(Cat(Text(<<"template", "<">>), template_args_of(function_defn.args)),
                      Text(<<">", "struct", metafunction_name.text[1], ";">>)),
             CatAll([i \in 1..Len(function_defn.specializations) |->
                        FunctionSpecialization_to_cpp(function_defn.specializations[i],
                                                      str_join(function_defn.original_name),
                                                      metafunction_name.text[1])]))))

lowir_Module(function_defns, assertions) ==
    [kind |-> "lowir.Module", function_defns |-> function_defns, assertions |-> assertions]

(***************************************************************************)
(* The modules given to the code generator: the arguments its constructors  *)
(* are called with.  A function has at least one parameter (sema.py 146     *)
(* rejects the others); a specialization may have none.                     *)
(***************************************************************************)
MaxCurry == 3

RECURSIVE CurriedType(_, _)
CurriedType(n, returns) ==
    IF n = 0 THEN returns ELSE types_FunctionType(<<types_TypeType>>, CurriedType(n - 1, returns))

TypeToType == CurriedType(1, types_TypeType)

Arg_b == lowir_FunctionArgDecl(types_BoolType, <<"b">>)

Arg_T == lowir_FunctionArgDecl(types_TypeType, <<"T">>)

Arg_U == lowir_FunctionArgDecl(types_TypeType, <<"U">>)

Arg_my_t == lowir_FunctionArgDecl(types_TypeType, <<"m", "y", "_", "t">>)

Arg_p == lowir_FunctionArgDecl(TypeToType, <<"p">>)

Arg_q == lowir_FunctionArgDecl(TypeToType, <<"q">>)

ArgLists ==
    { <<Arg_b, Arg_T>>, <<Arg_T, Arg_b>>, <<Arg_p>>, <<Arg_p, Arg_q>>, <<Arg_p, Arg_my_t>>,
      <<Arg_p, Arg_b, Arg_T>>, <<Arg_T, Arg_U>>, <<Arg_my_t>> }

TypeLiteral_int == lowir_TypeLiteral("int")

(* A global function of n curried parameters. *)
GlobalFunction(n, returns) == lowir_VarReference(CurriedType(n, returns), <<"f", "n">>, "")

(* expr applied k times. *)
RECURSIVE CallChain(_, _)
CallChain(expr, k) == IF k = 0 THEN expr ELSE lowir_FunctionCall(CallChain(expr, k - 1), <<TypeLiteral_int>>)

(* A boolean expression that references the parameter. *)
ReferenceTo(arg) ==
    IF arg.type.kind = ExprKind_BOOL THEN lowir_VarReference(arg.type, arg.name, "")
    ELSE IF arg.type.kind = ExprKind_TYPE
         THEN lowir_EqualityComparison(lowir_VarReference(arg.type, arg.name, ""), TypeLiteral_int)
    ELSE lowir_EqualityComparison(lowir_FunctionCall(lowir_VarReference(arg.type, arg.name, ""), <<TypeLiteral_int>>), TypeLiteral_int)

ConstantExprs ==
    { lowir_Literal(TRUE, types_BoolType),
      lowir_EqualityComparison(TypeLiteral_int, lowir_TypeLiteral("float")),
      CallChain(GlobalFunction(1, types_BoolType), 1) }

ConstantAsserts == { lowir_StaticAssert(e, "Assertion error") : e \in ConstantExprs }

AssertsIn(args) ==
    ConstantAsserts \cup { lowir_StaticAssert(ReferenceTo(args[i]), "Assertion error") : i \in 1..Len(args) }

LocalAssignments ==
    { lowir_Assignment(lowir_VarReference(types_TypeType, <<"x">>, ""), TypeLiteral_int),
      lowir_Assignment(lowir_VarReference(types_BoolType, <<"y">>, ""), lowir_Literal(FALSE, types_BoolType)),
      lowir_Assignment(lowir_VarReference(CurriedType(2, types_TypeType), <<"k">>, ""),
                       GlobalFunction(2, types_TypeType)) }

BodiesIn(args) ==
    {<<>>} \cup { <<a>> : a \in AssertsIn(args) }
           \cup { <<a, s>> : a \in ConstantAsserts, s \in LocalAssignments }
           \cup { <<s, a>> : a \in ConstantAsserts, s \in LocalAssignments }

SimpleResults == { lowir_Literal(TRUE, types_BoolType), TypeLiteral_int, GlobalFunction(1, types_TypeType) }

(* Functions of every depth, and the calls of them of every length. *)
CurriedResults ==
    UNION { { CallChain(GlobalFunction(n, returns), k) : k \in 0..n } :
              n \in 1..MaxCurry, returns \in {types_BoolType, types_TypeType} }

(* The arguments of a FunctionSpecialization(...) and of a FunctionDefn(...) *)
(* call, kept until the module is constructed.                              *)
FunctionSpecializationArgs(args, patterns, asserts_and_assignments, expression) ==
    [kind |-> "FunctionSpecializationArgs", args |-> args, patterns |-> patterns, asserts_and_assignments |-> asserts_and_assignments, expression |-> expression]

FunctionDefnArgs(return_type, args, main_definition, specializations, name) ==
    [kind |-> "FunctionDefnArgs", return_type |-> return_type, args |-> args, main_definition |-> main_definition, specializations |-> specializations, name |-> name]

(* Functions with one definition: every parameter list with every body. *)
FunctionsWithAsserts ==
    UNION { { FunctionDefnArgs(e.type, args, FunctionSpecializationArgs(args, NoPatterns, body, e), <<>>, <<"f">>) :
                body \in BodiesIn(args), e \in SimpleResults } : args \in ArgLists }

(* Functions that return functions and calls of them. *)
FunctionsWithCurriedResults ==
    { FunctionDefnArgs(e.type, <<Arg_T>>, FunctionSpecializationArgs(<<Arg_T>>, NoPatterns, <<>>, e), <<>>, <<"f">>) :
        e \in CurriedResults }

PatternNames == {"T", "U", "MyT", "List<T>", "int"}

MaxPatterns == 2

PatternLists ==
    UNION { [1..n -> { lowir_TypePatternLiteral(c) : c \in PatternNames }] : n \in 0..MaxPatterns }

SpecializationArgLists == { <<Arg_T, Arg_U>>, <<Arg_my_t>>, <<Arg_T>>, <<>> }

(* Functions with a specialization built from a pattern list, with and      *)
(* without a main definition.                                               *)
FunctionsWithPatterns ==
    { FunctionDefnArgs(types_TypeType, <<Arg_T, Arg_U>>, main_definition,
                       <<FunctionSpecializationArgs(args, Patterns(patterns), body, TypeLiteral_int)>>, <<"h">>) :
        main_definition \in {None, FunctionSpecializationArgs(<<Arg_T, Arg_U>>, NoPatterns, <<>>, TypeLiteral_int)},
        args \in SpecializationArgLists,
        patterns \in PatternLists,
        body \in {<<>>, <<lowir_StaticAssert(lowir_Literal(TRUE, types_BoolType), "Assertion error")>>} }

(* Parameters whose names differ and whose C++ names do not, and a boolean *)
(* parameter with an underscore in its name.                               *)
Arg_My_T == lowir_FunctionArgDecl(types_TypeType, <<"M", "y", "_", "T">>)

Arg_is_b == lowir_FunctionArgDecl(types_BoolType, <<"i", "s", "_", "b">>)

CollidingArgLists == { <<Arg_my_t, Arg_My_T>>, <<Arg_is_b, Arg_my_t>>, <<Arg_My_T, Arg_is_b, Arg_my_t>> }

FunctionsWithCollidingNames ==
    UNION { { FunctionDefnArgs(e.type, args, FunctionSpecializationArgs(args, NoPatterns, body, e), <<>>, <<"f">>) :
                body \in {<<>>} \cup { <<lowir_StaticAssert(ReferenceTo(args[i]), "Assertion error")>> :
                                           i \in 1..Len(args) },
                e \in SimpleResults } : args \in CollidingArgLists }

ModuleAssertionLists ==
    { <<>>,
      <<lowir_StaticAssert(lowir_Literal(TRUE, types_BoolType), "Assertion error")>>,
      <<lowir_StaticAssert(CallChain(GlobalFunction(1, types_BoolType), 1), "Assertion error"),
        lowir_StaticAssert(lowir_EqualityComparison(TypeLiteral_int, TypeLiteral_int), "Assertion error")>> }

LowirModuleArgs ==
    { lowir_Module(<<f>>, assertions) :
        f \in FunctionsWithAsserts \cup FunctionsWithCurriedResults \cup FunctionsWithPatterns
              \cup FunctionsWithCollidingNames,
        assertions \in ModuleAssertionLists }
    \cup { lowir_Module(<<f, g>>, <<>>) : f \in FunctionsWithCurriedResults, g \in FunctionsWithCurriedResults }

(***************************************************************************)
(* Code generation as a state machine: the module is constructed from its   *)
(* arguments, then Module.to_cpp puts the includes, the text of every       *)
(* function definition and the text of every module-level assertion one     *)
(* after the other.  An exception leaves no text: output is the exception.  *)
(***************************************************************************)
construct_specialization(a) ==
    lowir_FunctionSpecialization(a.args, a.patterns, a.asserts_and_assignments, a.expression)

construct_function_defn(a) ==
    lowir_FunctionDefn(a.return_type, a.args,
                       IF a.main_definition = None THEN None ELSE construct_specialization(a.main_definition),
                       [i \in 1..Len(a.specializations) |-> construct_specialization(a.specializations[i])],
                       a.name)

(* The exception the construction of the function raises, "" for none. *)
construction_raises(function_defn) ==
    IF function_defn.main_definition # None /\ function_defn.main_definition.raised # ""
    THEN function_defn.main_definition.raised
    ELSE IF \E i \in 1..Len(function_defn.specializations) : function_defn.specializations[i].raised # ""
    THEN function_defn.specializations[CHOOSE i \in 1..Len(function_defn.specializations) :
                                          function_defn.specializations[i].raised # ""].raised
    ELSE IF ~FunctionDefn_init_asserts(function_defn.main_definition, function_defn.specializations, function_defn.name)
    THEN AssertionError
    ELSE ""

CppInit ==
    /\ module \in LowirModuleArgs
    /\ pc = "lowir_args"
    /\ fun_index = 1
    /\ fun_writer = None
    /\ toplevel_stmts = <<>>
    /\ output = None
    /\ symbol_table = None
    /\ ir_function_defns = <<>>

ConstructLowirModule ==
    /\ pc = "lowir_args"
    /\ module' = lowir_Module([i \in 1..Len(module.function_defns) |-> construct_function_defn(module.function_defns[i])],
                              module.assertions)
    /\ pc' = IF \E i \in 1..Len(module.function_defns) :
                   construction_raises(construct_function_defn(module.function_defns[i])) # ""
             THEN "rejected" ELSE "constructed"
    /\ UNCHANGED <<fun_index, fun_writer, toplevel_stmts, output>>
    /\ UNCHANGED sema_vars

(* lowir.py 413-417 *)
ModuleToCppIncludes ==
    /\ pc = "constructed"
    /\ output' = Text(<<"#include <tmppy/tmppy.h>", "#include <type_traits>">>)
    /\ pc' = "function_defns"
    /\ fun_index' = 1
    /\ UNCHANGED <<module, fun_writer, toplevel_stmts>>
    /\ UNCHANGED sema_vars

(* lowir.py 418-419 *)
FunctionDefnToCpp ==
    /\ pc = "function_defns"
    /\ fun_index <= Len(module.function_defns)
    /\ output' = Cat(output, FunctionDefn_to_cpp(module.function_defns[fun_index]))
    /\ pc' = IF HasRaised(output') THEN "raised" ELSE "function_defns"
    /\ fun_index' = fun_index + 1
    /\ UNCHANGED <<module, fun_writer, toplevel_stmts>>
    /\ UNCHANGED sema_vars

FunctionDefnsToCppDone ==
    /\ pc = "function_defns"
    /\ fun_index > Len(module.function_defns)
    /\ pc' = "assertions"
    /\ fun_index' = 1
    /\ UNCHANGED <<module, fun_writer, toplevel_stmts, output>>
    /\ UNCHANGED sema_vars

(* lowir.py 420-421 *)
ModuleAssertionToCpp ==
    /\ pc = "assertions"
    /\ fun_index <= Len(module.assertions)
    /\ output' = Cat(output, StaticAssert_to_cpp(module.assertions[fun_index], TRUE, <<>>, ""))
    /\ pc' = IF HasRaised(output') THEN "raised" ELSE "assertions"
    /\ fun_index' = fun_index + 1
    /\ UNCHANGED <<module, fun_writer, toplevel_stmts>>
    /\ UNCHANGED sema_vars

ModuleToCppReturn ==
    /\ pc = "assertions"
    /\ fun_index > Len(module.assertions)
    /\ pc' = "returned"
    /\ UNCHANGED <<module, fun_index, fun_writer, toplevel_stmts, output>>
    /\ UNCHANGED sema_vars

CppNext ==
    \/ ConstructLowirModule
    \/ ModuleToCppIncludes
    \/ FunctionDefnToCpp
    \/ FunctionDefnsToCppDone
    \/ ModuleAssertionToCpp
    \/ ModuleToCppReturn

SpecCpp == CppInit /\ [][CppNext]_vars

(***************************************************************************)
(* What the emitted text is compared with.                                  *)
(***************************************************************************)
Emitting == pc \in {"function_defns", "assertions", "returned"} /\ ~HasRaised(output)

FunctionsEmitted == pc \in {"assertions", "returned"} /\ ~HasRaised(output)

RECURSIVE ConcatAll(_)
ConcatAll(seqs) == IF seqs = <<>> THEN <<>> ELSE Head(seqs) \o ConcatAll(Tail(seqs))

(* The positions of the token in the text, in increasing order. *)
PositionsOf(text, token) == SelectSeq([i \in 1..Len(text) |-> i], LAMBDA i : text[i] = token)

(* The definitions of a function in the order of their text. *)
SpecializationsOf(function_defn) ==
    (IF function_defn.main_definition = None THEN <<>> ELSE <<function_defn.main_definition>>)
    \o function_defn.specializations

(* The assertions of a definition, each with the parameters around it. *)
AssertSitesIn(specialization) ==
    [i \in 1..Len(SelectSeq(specialization.asserts_and_assignments, LAMBDA x : x.kind = "lowir.StaticAssert")) |->
        [stmt |-> SelectSeq(specialization.asserts_and_assignments, LAMBDA x : x.kind = "lowir.StaticAssert")[i],
         in_function |-> TRUE,
         args |-> specialization.args]]

FunctionAssertSites ==
    ConcatAll([f \in 1..Len(module.function_defns) |->
                  ConcatAll([d \in 1..Len(SpecializationsOf(module.function_defns[f])) |->
                                AssertSitesIn(SpecializationsOf(module.function_defns[f])[d])])])

(* The module-level assertions emitted so far. *)
ModuleAssertSites ==
    [i \in 1..(IF pc = "returned" THEN Len(module.assertions) ELSE fun_index - 1) |->
        [stmt |-> module.assertions[i], in_function |-> FALSE, args |-> <<>>]]

(* The expression holds a reference, by its source name, to the parameter. *)
RECURSIVE RefersTo(_, _)
RefersTo(expr, arg) ==
    IF expr.kind = "lowir.VarReference" THEN expr.name = arg.name /\ expr.type = arg.type
    ELSE IF expr.kind = "lowir.EqualityComparison" THEN RefersTo(expr.lhs, arg) \/ RefersTo(expr.rhs, arg)
    ELSE IF expr.kind = "lowir.FunctionCall"
         THEN RefersTo(expr.fun_expr, arg) \/ \E i \in 1..Len(expr.args) : RefersTo(expr.args[i], arg)
    ELSE IF expr.kind = "lowir.ListExpr" THEN \E i \in 1..Len(expr.elem_exprs) : RefersTo(expr.elem_exprs[i], arg)
    ELSE FALSE

IsConstantIn(stmt, args) == \A i \in 1..Len(args) : ~RefersTo(stmt.expr, args[i])

IsUsable(arg) == arg.type.kind \in {ExprKind_BOOL, ExprKind_TYPE}

HasUsableArg(args) == \E i \in 1..Len(args) : IsUsable(args[i])

FirstUsableArg(args) == args[CHOOSE i \in 1..Len(args) : IsUsable(args[i]) /\ \A j \in 1..(i - 1) : ~IsUsable(args[j])]

AlwaysTruePrefixes == {"AlwaysTrueFromBool<", "AlwaysTrueFromType<"}

(* The tokens that follow "static_assert(" when the assertion is tied to arg. *)
DeferringPrefix(arg) ==
    <<IF arg.type.kind = ExprKind_BOOL THEN "AlwaysTrueFromBool<" ELSE "AlwaysTrueFromType<",
      identifier_to_cpp(arg.type, arg.name).text[1], ">", "::value", "&&">>

FunctionProcessed(f) ==
    \/ pc \in {"assertions", "returned"}
    \/ pc \in {"function_defns", "raised"} /\ fun_index > f

(* The function has a definition with parameters, all of them templates,    *)
(* and in it an assertion that references none of them.                     *)
HasUndeferrableAssertion(function_defn) ==
    \E d \in 1..Len(SpecializationsOf(function_defn)) :
        /\ SpecializationsOf(function_defn)[d].args # <<>>
        /\ ~HasUsableArg(SpecializationsOf(function_defn)[d].args)
        /\ \E i \in 1..Len(AssertSitesIn(SpecializationsOf(function_defn)[d])) :
              IsConstantIn(AssertSitesIn(SpecializationsOf(function_defn)[d])[i].stmt,
                           SpecializationsOf(function_defn)[d].args)

(* C13: once the text of a function is asked for that holds an assertion    *)
(* referencing no parameter in a definition all of whose parameters are of  *)
(* template kind, code generation has failed with CodegenError, the message *)
(* names the function, no text is left for the module and none is ever      *)
(* returned; CodegenError is not the error of an unrecognized kind.         *)
C13_UndeferrableAssertionRaisesCodegenError ==
    /\ CodegenError # NotImplementedError
    /\ \A f \in 1..Len(module.function_defns) :
          (pc # "lowir_args" /\ pc # "rejected" /\ FunctionProcessed(f)
             /\ HasUndeferrableAssertion(module.function_defns[f])) =>
              /\ pc = "raised"
              /\ output.raised = CodegenError
              /\ \E i \in 1..Len(output.message) :
                    output.message[i] = str_join(module.function_defns[f].original_name)
              /\ output.text = <<>>

(* C13 witness: the function f(p, q) of two template parameters with a      *)
(* constant assertion has raised CodegenError.                              *)
C13_Witness ==
    /\ pc = "raised"
    /\ output.raised = CodegenError
    /\ module.function_defns[1].args = <<Arg_p, Arg_q>>
    /\ HasUndeferrableAssertion(module.function_defns[1])
    /\ output.message[2] = "f"

(* The C++ names of a parameter list, and the texts of a pattern list. *)
CxxNamesOf(args) == [i \in 1..Len(args) |-> identifier_to_cpp(args[i].type, args[i].name).text[1]]

CxxPatternsOf(patterns) == [i \in 1..Len(patterns.elems) |-> patterns.elems[i].cxx_pattern]

(* C14: when the module is constructed, a specialization built with a       *)
(* pattern list is the primary definition, its patterns dropped, exactly    *)
(* when the pattern list equals, element by element and in order, the list  *)
(* of the C++ names of its parameters; built from any other list, a         *)
(* permutation of the names included, it keeps the list it was given.       *)
C14_PrimaryExactlyWhenPatternsEqualParameters ==
    [][(pc = "lowir_args" /\ pc' = "constructed") =>
          \A f \in 1..Len(module.function_defns) :
              \A d \in 1..Len(module.function_defns[f].specializations) :
                  ~module.function_defns[f].specializations[d].patterns.none =>
                      IF CxxPatternsOf(module.function_defns[f].specializations[d].patterns)
                            = CxxNamesOf(module.function_defns[f].specializations[d].args)
                      THEN is_main_definition(module'.function_defns[f].specializations[d])
                      ELSE module'.function_defns[f].specializations[d].patterns
                              = module.function_defns[f].specializations[d].patterns]_vars

(* The definitions a FunctionDefn(...) call is given, in the order of       *)
(* SpecializationsOf.                                                       *)
SpecializationArgsOf(function_defn_args) ==
    (IF function_defn_args.main_definition = None THEN <<>> ELSE <<function_defn_args.main_definition>>)
    \o function_defn_args.specializations

ResultName(kind) == IF kind = ExprKind_BOOL THEN "value" ELSE "type"

(* The body is the given statements in their order, then the assignment of  *)
(* the result expression to value or type.                                  *)
EndsWithResult(specialization, given, expression) ==
    /\ Len(specialization.asserts_and_assignments) = Len(given) + 1
    /\ SubSeq(specialization.asserts_and_assignments, 1, Len(given)) = given
    /\ specialization.asserts_and_assignments[Len(given) + 1].kind = "lowir.Assignment"
    /\ specialization.asserts_and_assignments[Len(given) + 1].rhs = expression
    /\ specialization.asserts_and_assignments[Len(given) + 1].lhs.name = <<>>
    /\ specialization.asserts_and_assignments[Len(given) + 1].lhs.cxx_name = ResultName(expression.type.kind)
    /\ specialization.asserts_and_assignments[Len(given) + 1].lhs.type = expression.type

(* C15: when the module is constructed, the body of every definition of     *)
(* every function is the assertions and assignments it was given, in their  *)
(* order, followed by one last element: the assignment of the result        *)
(* expression to value when it is of boolean kind, to type when it is of    *)
(* type or template kind.                                                   *)
C15_BodyEndsWithResultAssignment ==
    [][(pc = "lowir_args" /\ pc' = "constructed") =>
          \A f \in 1..Len(module.function_defns) :
              /\ Len(SpecializationsOf(module'.function_defns[f])) = Len(SpecializationArgsOf(module.function_defns[f]))
              /\ \A d \in 1..Len(SpecializationArgsOf(module.function_defns[f])) :
                    EndsWithResult(SpecializationsOf(module'.function_defns[f])[d],
                                   SpecializationArgsOf(module.function_defns[f])[d].asserts_and_assignments,
                                   SpecializationArgsOf(module.function_defns[f])[d].expression)]_vars

(* C15 witness: a constructed definition given an assertion and an          *)
(* assignment, whose result is a function: its body has three elements,     *)
(* the last one the assignment to type.                                     *)
C15_Witness ==
    /\ pc = "constructed"
    /\ module.function_defns[1].main_definition # None
    /\ module.function_defns[1].main_definition.expr.type.kind = ExprKind_TEMPLATE
    /\ Len(module.function_defns[1].main_definition.asserts_and_assignments) = 3
    /\ module.function_defns[1].main_definition.asserts_and_assignments[1].kind = "lowir.StaticAssert"
    /\ module.function_defns[1].main_definition.asserts_and_assignments[2].lhs.name = <<"x">>
    /\ module.function_defns[1].main_definition.asserts_and_assignments[3].lhs.cxx_name = "type"

(* The assignments of the constructed module, the result assignments       *)
(* included.                                                                *)
AssignmentsOf(function_defn) ==
    ConcatAll([d \in 1..Len(SpecializationsOf(function_defn)) |->
                  SelectSeq(SpecializationsOf(function_defn)[d].asserts_and_assignments,
                            LAMBDA x : x.kind = "lowir.Assignment")])

ModuleAssignments == ConcatAll([f \in 1..Len(module.function_defns) |-> AssignmentsOf(module.function_defns[f])])

(* The number of nested function types: f of type A -> (B -> C) has 2. *)
RECURSIVE TemplateDepth(_)
TemplateDepth(type) == IF type.kind = ExprKind_TEMPLATE THEN 1 + TemplateDepth(type.returns) ELSE 0

(* The number of parameters of all of them. *)
RECURSIVE TotalParams(_)
TotalParams(type) ==
    IF type.kind = ExprKind_TEMPLATE THEN Len(type.argtypes) + TotalParams(type.returns) ELSE 0

(* The levels at which a template-kind value is assigned to type: all of    *)
(* them, but the outermost one of an assignment to another name.            *)
TemplateAssignmentsToType(stmt) ==
    IF stmt.lhs.type.kind # ExprKind_TEMPLATE THEN 0
    ELSE IF VarReference_to_cpp(stmt.lhs).text = <<"type">> THEN TemplateDepth(stmt.lhs.type)
    ELSE TemplateDepth(stmt.lhs.type) - 1

StructNamesIn(text) == [i \in 1..Len(PositionsOf(text, "struct")) |-> text[PositionsOf(text, "struct")[i] + 1]]

(* The positions of the alias templates named type: template <...> using type = *)
AliasTemplatesIn(text) ==
    SelectSeq(PositionsOf(text, "using"),
              LAMBDA q : q > 1 /\ text[q - 1] = ">" /\ text[q + 1] = "type" /\ text[q + 2] = "=")

IsInjective(seq) == \A i, j \in 1..Len(seq) : i # j => seq[i] # seq[j]

(* text holds part as a run of consecutive tokens. *)
HoldsText(text, part) ==
    \E start \in 0..(Len(text) - Len(part)) : SubSeq(text, start + 1, start + Len(part)) = part

GeneratedParamNames(text) ==
    { text[i] : i \in 1..Len(text) } \cap { next_identifier(advance_by(generate_identifiers("Param_"), k)) : k \in 0..Len(text) }

(* C16: in the emitted text of a module no struct is named type; the text   *)
(* of every assignment of the module is part of it and has one struct per   *)
(* nested function type of the assigned value, all of different names, one  *)
(* alias template named type for every level at which a template-kind       *)
(* value is assigned to type, each the alias of one of these structs, and   *)
(* as many different generated parameter names as the nested function       *)
(* types have parameters.                                                   *)
C16_NoStructNamedType ==
    FunctionsEmitted =>
        /\ \A i \in 1..Len(PositionsOf(output.text, "struct")) :
              output.text[PositionsOf(output.text, "struct")[i] + 1] # "type"
        /\ \A a \in 1..Len(ModuleAssignments) :
              /\ ~HasRaised(Assignment_to_cpp(ModuleAssignments[a]))
              /\ HoldsText(output.text, Assignment_to_cpp(ModuleAssignments[a]).text)
              /\ Len(StructNamesIn(Assignment_to_cpp(ModuleAssignments[a]).text))
                    = TemplateDepth(ModuleAssignments[a].lhs.type)
              /\ IsInjective(StructNamesIn(Assignment_to_cpp(ModuleAssignments[a]).text))
              /\ Len(AliasTemplatesIn(Assignment_to_cpp(ModuleAssignments[a]).text))
                    = TemplateAssignmentsToType(ModuleAssignments[a])
              /\ \A i \in 1..Len(AliasTemplatesIn(Assignment_to_cpp(ModuleAssignments[a]).text)) :
                    /\ Assignment_to_cpp(ModuleAssignments[a]).text[AliasTemplatesIn(Assignment_to_cpp(ModuleAssignments[a]).text)[i] + 3]
                          \in SetOfSeq(StructNamesIn(Assignment_to_cpp(ModuleAssignments[a]).text))
                    /\ Assignment_to_cpp(ModuleAssignments[a]).text[AliasTemplatesIn(Assignment_to_cpp(ModuleAssignments[a]).text)[i] + 4] = "<"
              /\ Cardinality(GeneratedParamNames(Assignment_to_cpp(ModuleAssignments[a]).text))
                    = TotalParams(ModuleAssignments[a].lhs.type)

(* C16 witness: a function whose result is a function of three curried      *)
(* parameters has been emitted: three helper structs, three aliases.        *)
C16_Witness ==
    /\ FunctionsEmitted
    /\ Len(ModuleAssignments) = 1
    /\ TemplateAssignmentsToType(ModuleAssignments[1]) = 3
    /\ HoldsText(output.text, <<"struct", "type_Helper2", "{">>)
    /\ HoldsText(output.text, <<"using", "type", "=", "type_Helper0", "<", "Param_2", ">", ";">>)

(* The expression an assignment's text is made of: a value of template     *)
(* kind is applied to the generated parameters of every nested function     *)
(* type, the k-th of them named Param_k.                                    *)
RECURSIVE FullyApplied(_, _)
FullyApplied(expr, k) ==
    IF expr.type.kind # ExprKind_TEMPLATE THEN expr
    ELSE FullyApplied(lowir_FunctionCall(expr, [i \in 1..Len(expr.type.argtypes) |->
                                                  lowir_VarReference(expr.type.argtypes[i], <<>>,
                                                                     "Param_" \o ToString(k + i - 1))]),
                      k + Len(expr.type.argtypes))

(* The expressions whose text the emitted module holds. *)
EmittedExprs ==
    [i \in 1..Len(FunctionAssertSites \o ModuleAssertSites) |-> (FunctionAssertSites \o ModuleAssertSites)[i].stmt.expr]
    \o [a \in 1..Len(ModuleAssignments) |-> FullyApplied(ModuleAssignments[a].rhs, FirstId)]

RECURSIVE SumOf(_)
SumOf(numbers) == IF numbers = <<>> THEN 0 ELSE Head(numbers) + SumOf(Tail(numbers))

(* The calls of the expression in the given position (callee of another     *)
(* call or not) whose kind is one of the given kinds.                       *)
RECURSIVE NumCalls(_, _, _, _)
NumCalls(expr, is_callee, as_callee, kinds) ==
    IF expr.kind = "lowir.FunctionCall"
    THEN (IF is_callee = as_callee /\ expr.type.kind \in kinds THEN 1 ELSE 0)
         + NumCalls(expr.fun_expr, TRUE, as_callee, kinds)
         + SumOf([i \in 1..Len(expr.args) |-> NumCalls(expr.args[i], FALSE, as_callee, kinds)])
    ELSE IF expr.kind = "lowir.EqualityComparison"
    THEN NumCalls(expr.lhs, FALSE, as_callee, kinds) + NumCalls(expr.rhs, FALSE, as_callee, kinds)
    ELSE IF expr.kind = "lowir.ListExpr"
    THEN SumOf([i \in 1..Len(expr.elem_exprs) |-> NumCalls(expr.elem_exprs[i], FALSE, as_callee, kinds)])
    ELSE 0

AllKinds == {ExprKind_BOOL, ExprKind_TYPE, ExprKind_TEMPLATE}

(* Every call in the expression satisfies the constructor's assertions. *)
RECURSIVE IsConstructible(_)
IsConstructible(expr) ==
    IF expr.kind = "lowir.FunctionCall"
    THEN /\ FunctionCall_init_asserts(expr.fun_expr, expr.args)
         /\ IsConstructible(expr.fun_expr)
         /\ \A i \in 1..Len(expr.args) : IsConstructible(expr.args[i])
    ELSE IF expr.kind = "lowir.EqualityComparison" THEN IsConstructible(expr.lhs) /\ IsConstructible(expr.rhs)
    ELSE IF expr.kind = "lowir.ListExpr" THEN \A i \in 1..Len(expr.elem_exprs) : IsConstructible(expr.elem_exprs[i])
    ELSE TRUE

CountOf(text, token) == Len(PositionsOf(text, token))

(* C17: code generation never fails on the assertion that guards callee     *)
(* position, and in the text of every emitted expression (part of the       *)
(* module's text) every call that is the callee of another call is of type  *)
(* or template kind and ends in ::template type, followed by the next       *)
(* argument list, and has no typename; every other call of type or template *)
(* kind has one typename and ends in ::type; a call of boolean kind is      *)
(* never a callee, has no typename and ends in ::value.                     *)
C17_CurriedCallsAreQualified ==
    /\ output # None => output.raised # AssertionError
    /\ FunctionsEmitted =>
          \A e \in 1..Len(EmittedExprs) :
              /\ IsConstructible(EmittedExprs[e])
              /\ ~HasRaised(Expr_to_cpp(EmittedExprs[e], FALSE))
              /\ HoldsText(output.text, Expr_to_cpp(EmittedExprs[e], FALSE).text)
              /\ NumCalls(EmittedExprs[e], FALSE, TRUE, {ExprKind_BOOL}) = 0
              /\ CountOf(Expr_to_cpp(EmittedExprs[e], FALSE).text, "::template")
                    = NumCalls(EmittedExprs[e], FALSE, TRUE, AllKinds)
              /\ \A i \in 1..Len(PositionsOf(Expr_to_cpp(EmittedExprs[e], FALSE).text, "::template")) :
                    SubSeq(Expr_to_cpp(EmittedExprs[e], FALSE).text,
                           PositionsOf(Expr_to_cpp(EmittedExprs[e], FALSE).text, "::template")[i] - 1,
                           PositionsOf(Expr_to_cpp(EmittedExprs[e], FALSE).text, "::template")[i] + 2)
                    = <<">", "::template", "type", "<">>
              /\ CountOf(Expr_to_cpp(EmittedExprs[e], FALSE).text, "typename")
                    = NumCalls(EmittedExprs[e], FALSE, FALSE, {ExprKind_TYPE, ExprKind_TEMPLATE})
              /\ CountOf(Expr_to_cpp(EmittedExprs[e], FALSE).text, "::type")
                    = NumCalls(EmittedExprs[e], FALSE, FALSE, {ExprKind_TYPE, ExprKind_TEMPLATE})
              /\ EmittedExprs[e].kind = "lowir.FunctionCall" =>
                    IF EmittedExprs[e].type.kind = ExprKind_BOOL
                    THEN /\ Expr_to_cpp(EmittedExprs[e], FALSE).text[Len(Expr_to_cpp(EmittedExprs[e], FALSE).text)] = "::value"
                         /\ Expr_to_cpp(EmittedExprs[e], FALSE).text[1] # "typename"
                    ELSE /\ Expr_to_cpp(EmittedExprs[e], FALSE).text[Len(Expr_to_cpp(EmittedExprs[e], FALSE).text)] = "::type"
                         /\ Expr_to_cpp(EmittedExprs[e], FALSE).text[1] = "typename"

(* C17 witness: a function is emitted whose result is fn(int)(int)(int), a  *)
(* type, and one whose result is the boolean fn(int)(int).                  *)
C17_Witness ==
    /\ pc = "returned"
    /\ ~HasRaised(output)
    /\ Len(module.function_defns) = 2
    /\ HoldsText(output.text, <<"typename", "Fn", "<", "int", ">", "::template", "type", "<", "int", ">",
                                "::template", "type", "<", "int", ">", "::type", ";">>)
    /\ HoldsText(output.text, <<"=", "Fn", "<", "int", ">", "::template", "type", "<", "int", ">", "::value", ";">>)

(***************************************************************************)
(* Pass B (ir2_to_ir1.py).  A conversion gives the ir1 node, a record       *)
(* whose kind starts with ir1, or the exception it raised; a node built     *)
(* from converted children is the first exception among them, in the order  *)
(* the code converts them, if there is one.                                 *)
(***************************************************************************)
RECURSIVE type_to_ir1(_)
RECURSIVE custom_type_to_ir1(_)

custom_type_to_ir1(type) ==
    Build([i \in 1..Len(type.arg_types) |-> type_to_ir1(type.arg_types[i].type)],
          [kind |-> "ir1.CustomType", name |-> type.name,
           arg_types |-> [i \in 1..Len(type.arg_types) |->
                             [name |-> type.arg_types[i].name, type |-> type_to_ir1(type.arg_types[i].type)]]])

type_to_ir1(type) ==
    IF type.kind = "BoolType" THEN [kind |-> "ir1.BoolType"]
    ELSE IF type.kind = "IntType" THEN [kind |-> "ir1.IntType"]
    ELSE IF type.kind = "TypeType" THEN [kind |-> "ir1.TypeType"]
    ELSE IF type.kind = "BottomType" THEN [kind |-> "ir1.BottomType"]
    ELSE IF type.kind = "ErrorOrVoidType" THEN [kind |-> "ir1.ErrorOrVoidType"]
    ELSE IF type.kind = "ListType" THEN [kind |-> "ir1.TypeType"]
    ELSE IF type.kind = "FunctionType"
         THEN Build([i \in 1..Len(type.argtypes) |-> type_to_ir1(type.argtypes[i])] \o <<type_to_ir1(type.returns)>>,
                    [kind |-> "ir1.FunctionType",
                     argtypes |-> [i \in 1..Len(type.argtypes) |-> type_to_ir1(type.argtypes[i])],
                     returns |-> type_to_ir1(type.returns)])
    ELSE IF type.kind = "CustomType" THEN custom_type_to_ir1(type)
    ELSE RaisedError(NotImplementedError, "Unexpected type")

(* ir1_to_ir0.type_to_ir0(type).kind: the kind of C++ entity that holds a   *)
(* value of the type.                                                       *)
type_to_ir0_kind(type) ==
    IF type.kind = "ir1.BoolType" THEN "BOOL"
    ELSE IF type.kind = "ir1.IntType" THEN "INT64"
    ELSE IF type.kind = "ir1.FunctionType" THEN "TEMPLATE"
    ELSE "TYPE"

function_arg_decl_to_ir1(decl) ==
    Build(<<type_to_ir1(decl.type)>>,
          [kind |-> "ir1.FunctionArgDecl", type |-> type_to_ir1(decl.type), name |-> decl.name])

var_reference_to_ir1(var) ==
    Build(<<type_to_ir1(var.type)>>,
          [kind |-> "ir1.VarReference", type |-> type_to_ir1(var.type), name |-> var.name,
           is_global_function |-> var.is_global_function,
           is_function_that_may_throw |-> var.is_function_that_may_throw])

vars_to_ir1(var_list) == [i \in 1..Len(var_list) |-> var_reference_to_ir1(var_list[i])]

function_call_to_ir1(call_expr) ==
    Build(<<var_reference_to_ir1(call_expr.fun)>> \o vars_to_ir1(call_expr.args),
          [kind |-> "ir1.FunctionCall", fun |-> var_reference_to_ir1(call_expr.fun),
           args |-> vars_to_ir1(call_expr.args)])

match_expr_to_ir1(match_expr) ==
    Build(vars_to_ir1(match_expr.matched_vars)
             \o [i \in 1..Len(match_expr.match_cases) |-> function_call_to_ir1(match_expr.match_cases[i].expr)],
          [kind |-> "ir1.MatchExpr",
           matched_vars |-> vars_to_ir1(match_expr.matched_vars),
           match_cases |-> [i \in 1..Len(match_expr.match_cases) |->
                               [type_patterns |-> match_expr.match_cases[i].type_patterns,
                                matched_var_names |-> match_expr.match_cases[i].matched_var_names,
                                expr |-> function_call_to_ir1(match_expr.match_cases[i].expr)]]])

bool_literal_to_ir1(literal) == [kind |-> "ir1.BoolLiteral", value |-> literal.value]

int_literal_to_ir1(literal) == [kind |-> "ir1.IntLiteral", ivalue |-> literal.ivalue]

(* The list template of the element kind, for every element kind. *)
list_template_name_always_type_list(elem_kind) == "List"

(* ir2_to_ir1.py 188-195 *)
list_template_name(elem_kind) ==
    IF elem_kind = "BOOL" THEN "BoolList"
    ELSE IF elem_kind = "INT64" THEN "Int64List"
    ELSE IF elem_kind = "TYPE" THEN "List"
    ELSE ""

(* ir2_to_ir1.py 286-293 *)
list_concat_template_name(elem_kind) ==
    IF elem_kind = "BOOL" THEN "BoolListConcat"
    ELSE IF elem_kind = "INT64" THEN "Int64ListConcat"
    ELSE IF elem_kind = "TYPE" THEN "TypeListConcat"
    ELSE ""

TemplateInstantiation(template_name, args) ==
    [kind |-> "ir1.TemplateInstantiation", template_name |-> template_name, args |-> args,
     instantiation_might_trigger_static_asserts |-> FALSE]

ClassMemberAccess(class_type_expr, member_name, member_type) ==
    [kind |-> "ir1.ClassMemberAccess", class_type_expr |-> class_type_expr,
     member_name |-> member_name, member_type |-> member_type]

list_expr_to_ir1(list_expr) ==
    IF IsRaised(type_to_ir1(list_expr.type.elem_type)) THEN type_to_ir1(list_expr.type.elem_type)
    ELSE IF list_template_name(type_to_ir0_kind(type_to_ir1(list_expr.type.elem_type))) = ""
    THEN RaisedError(NotImplementedError, "elem_kind")
    ELSE Build(vars_to_ir1(list_expr.elems),
               TemplateInstantiation(list_template_name(type_to_ir0_kind(type_to_ir1(list_expr.type.elem_type))),
                                     vars_to_ir1(list_expr.elems)))

list_concat_expr_to_ir1(expr) ==
    IF IsRaised(type_to_ir1(expr.type.elem_type)) THEN type_to_ir1(expr.type.elem_type)
    ELSE IF list_concat_template_name(type_to_ir0_kind(type_to_ir1(expr.type.elem_type))) = ""
    THEN RaisedError(NotImplementedError, "elem_kind")
    ELSE Build(<<var_reference_to_ir1(expr.lhs), var_reference_to_ir1(expr.rhs)>>,
               ClassMemberAccess(
                   TemplateInstantiation(list_concat_template_name(type_to_ir0_kind(type_to_ir1(expr.type.elem_type))),
                                         <<var_reference_to_ir1(expr.lhs), var_reference_to_ir1(expr.rhs)>>),
                   "type", [kind |-> "ir1.TypeType"]))

(* int_list_sum_expr_to_ir1, bool_list_all_expr_to_ir1 and                  *)
(* bool_list_any_expr_to_ir1                                                *)
list_aggregate_to_ir1(expr, template_name, member_type) ==
    Build(<<var_reference_to_ir1(expr.var)>>,
          ClassMemberAccess(TemplateInstantiation(template_name, <<var_reference_to_ir1(expr.var)>>),
                            "value", member_type))

(* The conversions of a node with one variable (var) or two (lhs, rhs). *)
unary_to_ir1(expr, kind) ==
    Build(<<var_reference_to_ir1(expr.var)>>, [kind |-> kind, var |-> var_reference_to_ir1(expr.var)])

binary_to_ir1(expr, kind) ==
    Build(<<var_reference_to_ir1(expr.lhs), var_reference_to_ir1(expr.rhs)>>,
          [kind |-> kind, lhs |-> var_reference_to_ir1(expr.lhs), rhs |-> var_reference_to_ir1(expr.rhs)])

attribute_access_expr_to_ir1(expr) ==
    Build(<<var_reference_to_ir1(expr.var), type_to_ir1(expr.type)>>,
          [kind |-> "ir1.AttributeAccessExpr", var |-> var_reference_to_ir1(expr.var),
           attribute_name |-> expr.attribute_name, type |-> type_to_ir1(expr.type)])

list_comprehension_expr_to_ir1(expr) ==
    Build(<<var_reference_to_ir1(expr.list_var), var_reference_to_ir1(expr.loop_var),
            function_call_to_ir1(expr.result_elem_expr)>>,
          [kind |-> "ir1.ListComprehensionExpr", list_var |-> var_reference_to_ir1(expr.list_var),
           loop_var |-> var_reference_to_ir1(expr.loop_var),
           result_elem_expr |-> function_call_to_ir1(expr.result_elem_expr)])

is_instance_expr_to_ir1(expr) ==
    Build(<<var_reference_to_ir1(expr.var), custom_type_to_ir1(expr.checked_type)>>,
          [kind |-> "ir1.IsInstanceExpr", var |-> var_reference_to_ir1(expr.var),
           checked_type |-> custom_type_to_ir1(expr.checked_type)])

safe_unchecked_cast_expr_to_ir1(expr) ==
    Build(<<var_reference_to_ir1(expr.var), custom_type_to_ir1(expr.type)>>,
          [kind |-> "ir1.SafeUncheckedCast", var |-> var_reference_to_ir1(expr.var),
           type |-> custom_type_to_ir1(expr.type)])

add_to_set_expr_to_ir1(expr) ==
    Build(<<var_reference_to_ir1(expr.set_expr), var_reference_to_ir1(expr.elem_expr)>>,
          [kind |-> "ir1.AddToSetExpr", set_expr |-> var_reference_to_ir1(expr.set_expr),
           elem_expr |-> var_reference_to_ir1(expr.elem_expr)])

set_equality_comparison_expr_to_ir1(expr) ==
    IF expr.lhs.type.kind # "ListType" THEN RaisedError(AssertionError, "SetEqualityComparison")
    ELSE Build(<<var_reference_to_ir1(expr.lhs), var_reference_to_ir1(expr.rhs), type_to_ir1(expr.lhs.type.elem_type)>>,
               [kind |-> "ir1.SetEqualityComparison", lhs |-> var_reference_to_ir1(expr.lhs),
                rhs |-> var_reference_to_ir1(expr.rhs), elem_type |-> type_to_ir1(expr.lhs.type.elem_type)])

list_to_set_expr_to_ir1(expr) ==
    IF expr.var.type.kind # "ListType" THEN RaisedError(AssertionError, "ListToSetExpr")
    ELSE Build(<<var_reference_to_ir1(expr.var), type_to_ir1(expr.var.type.elem_type)>>,
               [kind |-> "ir1.ListToSetExpr", var |-> var_reference_to_ir1(expr.var),
                elem_type |-> type_to_ir1(expr.var.type.elem_type)])

set_to_list_expr_to_ir1(expr) == var_reference_to_ir1(expr.var)

RECURSIVE expr_to_ir1(_)
RECURSIVE type_literal_to_ir1(_)

type_literal_to_ir1(literal) ==
    Build([i \in 1..Len(literal.args) |-> expr_to_ir1(literal.args[i].var)],
          [kind |-> "ir1.TypeLiteral", cpp_type |-> literal.cpp_type,
           args |-> [i \in 1..Len(literal.args) |->
                        [name |-> literal.args[i].name, var |-> expr_to_ir1(literal.args[i].var)]]])

expr_to_ir1(expr) ==
    IF expr.kind = "VarReference" THEN var_reference_to_ir1(expr)
    ELSE IF expr.kind = "MatchExpr" THEN match_expr_to_ir1(expr)
    ELSE IF expr.kind = "BoolLiteral" THEN bool_literal_to_ir1(expr)
    ELSE IF expr.kind = "IntLiteral" THEN int_literal_to_ir1(expr)
    ELSE IF expr.kind = "TypeLiteral" THEN type_literal_to_ir1(expr)
    ELSE IF expr.kind = "ListExpr" THEN list_expr_to_ir1(expr)
    ELSE IF expr.kind = "FunctionCall" THEN function_call_to_ir1(expr)
    ELSE IF expr.kind = "EqualityComparison" THEN binary_to_ir1(expr, "ir1.EqualityComparison")
    ELSE IF expr.kind = "AttributeAccessExpr" THEN attribute_access_expr_to_ir1(expr)
    ELSE IF expr.kind = "NotExpr" THEN unary_to_ir1(expr, "ir1.NotExpr")
    ELSE IF expr.kind = "IntComparisonExpr" THEN binary_to_ir1(expr, "ir1.IntComparisonExpr")
    ELSE IF expr.kind = "UnaryMinusExpr" THEN unary_to_ir1(expr, "ir1.UnaryMinusExpr")
    ELSE IF expr.kind = "IntListSumExpr" THEN list_aggregate_to_ir1(expr, "Int64ListSum", [kind |-> "ir1.IntType"])
    ELSE IF expr.kind = "BoolListAllExpr" THEN list_aggregate_to_ir1(expr, "BoolListAll", [kind |-> "ir1.BoolType"])
    ELSE IF expr.kind = "BoolListAnyExpr" THEN list_aggregate_to_ir1(expr, "BoolListAny", [kind |-> "ir1.BoolType"])
    ELSE IF expr.kind = "IntBinaryOpExpr" THEN binary_to_ir1(expr, "ir1.IntBinaryOpExpr")
    ELSE IF expr.kind = "ListConcatExpr" THEN list_concat_expr_to_ir1(expr)
    ELSE IF expr.kind = "ListComprehensionExpr" THEN list_comprehension_expr_to_ir1(expr)
    ELSE IF expr.kind = "IsInstanceExpr" THEN is_instance_expr_to_ir1(expr)
    ELSE IF expr.kind = "SafeUncheckedCast" THEN safe_unchecked_cast_expr_to_ir1(expr)
    ELSE IF expr.kind = "AddToSetExpr" THEN add_to_set_expr_to_ir1(expr)
    ELSE IF expr.kind = "SetEqualityComparison" THEN set_equality_comparison_expr_to_ir1(expr)
    ELSE IF expr.kind = "ListToSetExpr" THEN list_to_set_expr_to_ir1(expr)
    ELSE IF expr.kind = "SetToListExpr" THEN set_to_list_expr_to_ir1(expr)
    ELSE RaisedError(NotImplementedError, "Unexpected expression")

(***************************************************************************)
(* Statements and top-level elements of Pass B.  The writer of a function   *)
(* body is the list of its statements: everything a body writes is an       *)
(* ir1.Stmt.  A raise is the last element of the list.                      *)
(***************************************************************************)
assert_to_ir1(assert_stmt) ==
    Build(<<var_reference_to_ir1(assert_stmt.var)>>,
          [kind |-> "ir1.Assert", var |-> var_reference_to_ir1(assert_stmt.var), message |-> assert_stmt.message])

assignment_to_ir1(assignment) ==
    Build(<<var_reference_to_ir1(assignment.lhs)>>
             \o (IF assignment.lhs2 # None THEN <<var_reference_to_ir1(assignment.lhs2)>> ELSE <<>>)
             \o <<expr_to_ir1(assignment.rhs)>>,
          [kind |-> "ir1.Assignment",
           lhs |-> var_reference_to_ir1(assignment.lhs),
           lhs2 |-> IF assignment.lhs2 # None THEN var_reference_to_ir1(assignment.lhs2) ELSE None,
           rhs |-> expr_to_ir1(assignment.rhs)])

unpacking_assignment_to_ir1(assignment) ==
    Build(vars_to_ir1(assignment.lhs_list) \o <<var_reference_to_ir1(assignment.rhs)>>,
          [kind |-> "ir1.UnpackingAssignment", lhs_list |-> vars_to_ir1(assignment.lhs_list),
           rhs |-> var_reference_to_ir1(assignment.rhs), error_message |-> assignment.error_message])

return_stmt_to_ir1(return_stmt) ==
    Build((IF return_stmt.result # None THEN <<var_reference_to_ir1(return_stmt.result)>> ELSE <<>>)
             \o (IF return_stmt.error # None THEN <<var_reference_to_ir1(return_stmt.error)>> ELSE <<>>),
          [kind |-> "ir1.ReturnStmt",
           result |-> IF return_stmt.result # None THEN var_reference_to_ir1(return_stmt.result) ELSE None,
           error |-> IF return_stmt.error # None THEN var_reference_to_ir1(return_stmt.error) ELSE None])

(* The statements written so far end with a raise. *)
EndsRaised(stmts) == stmts # <<>> /\ IsRaised(stmts[Len(stmts)])

RECURSIVE stmts_to_ir1(_, _)
RECURSIVE if_stmt_to_ir1(_)

(* What if_stmt_to_ir1 writes: the statement, or the raise. *)
if_stmt_to_ir1(if_stmt) ==
    Bind(stmts_to_ir1(if_stmt.if_stmts, <<>>), LAMBDA if_branch_stmts :
    IF EndsRaised(if_branch_stmts) THEN if_branch_stmts[Len(if_branch_stmts)]
    ELSE Bind(stmts_to_ir1(if_stmt.else_stmts, <<>>), LAMBDA else_branch_stmts :
         IF EndsRaised(else_branch_stmts) THEN else_branch_stmts[Len(else_branch_stmts)]
         ELSE Build(<<var_reference_to_ir1(if_stmt.cond)>>,
                    [kind |-> "ir1.IfStmt", cond |-> var_reference_to_ir1(if_stmt.cond),
                     if_stmts |-> if_branch_stmts, else_stmts |-> else_branch_stmts])))

(* A statement of an unrecognized class left out. *)
stmt_to_ir1_skipping(stmt) ==
    IF stmt.kind = "IfStmt" THEN <<if_stmt_to_ir1(stmt)>>
    ELSE IF stmt.kind = "Assignment" THEN <<assignment_to_ir1(stmt)>>
    ELSE IF stmt.kind = "UnpackingAssignment" THEN <<unpacking_assignment_to_ir1(stmt)>>
    ELSE IF stmt.kind = "ReturnStmt" THEN <<return_stmt_to_ir1(stmt)>>
    ELSE IF stmt.kind = "Assert" THEN <<assert_to_ir1(stmt)>>
    ELSE <<>>

(* ir2_to_ir1.py 371-382: what the statement writes. *)
stmt_to_ir1(stmt) ==
    IF stmt.kind = "IfStmt" THEN <<if_stmt_to_ir1(stmt)>>
    ELSE IF stmt.kind = "Assignment" THEN <<assignment_to_ir1(stmt)>>
    ELSE IF stmt.kind = "UnpackingAssignment" THEN <<unpacking_assignment_to_ir1(stmt)>>
    ELSE IF stmt.kind = "ReturnStmt" THEN <<return_stmt_to_ir1(stmt)>>
    ELSE IF stmt.kind = "Assert" THEN <<assert_to_ir1(stmt)>>
    ELSE <<RaisedError(NotImplementedError, "Unexpected statement")>>

stmts_to_ir1(stmts, written) ==
    IF stmts = <<>> \/ EndsRaised(written) THEN written
    ELSE stmts_to_ir1(Tail(stmts), written \o stmt_to_ir1(Head(stmts)))

(* What function_defn_to_ir1 writes. *)
function_defn_to_ir1(function_defn) ==
    Bind(type_to_ir1(function_defn.return_type), LAMBDA return_type :
    IF IsRaised(return_type) THEN return_type
    ELSE Bind(stmts_to_ir1(function_defn.body, <<>>), LAMBDA body :
         IF EndsRaised(body) THEN body[Len(body)]
         ELSE Build([i \in 1..Len(function_defn.args) |-> function_arg_decl_to_ir1(function_defn.args[i])],
                    [kind |-> "ir1.FunctionDefn", name |-> function_defn.name,
                     description |-> function_defn.description,
                     args |-> [i \in 1..Len(function_defn.args) |-> function_arg_decl_to_ir1(function_defn.args[i])],
                     body |-> body,
                     return_type |-> return_type])))

check_if_error_defn_to_ir1(toplevel_elem) ==
    Build([i \in 1..Len(toplevel_elem.error_types_and_messages) |->
              custom_type_to_ir1(toplevel_elem.error_types_and_messages[i].type)],
          [kind |-> "ir1.CheckIfErrorDefn",
           error_types_and_messages |->
               [i \in 1..Len(toplevel_elem.error_types_and_messages) |->
                   [type |-> custom_type_to_ir1(toplevel_elem.error_types_and_messages[i].type),
                    message |-> toplevel_elem.error_types_and_messages[i].message]]])

(* The function definition written before everything written so far. *)
write_elems_functions_first(elems, written) ==
    IF written # <<>> /\ written[1].kind = "ir1.FunctionDefn" THEN written \o elems ELSE elems \o written

(* FunWriter.write: elems.append(elem) *)
write_elems(elems, written) == elems \o written

(* ir2_to_ir1.py 400-411: what the top-level element writes. *)
toplevel_elem_to_ir1(toplevel_elem) ==
    IF toplevel_elem.kind = "FunctionDefn" THEN <<function_defn_to_ir1(toplevel_elem)>>
    ELSE IF toplevel_elem.kind = "Assignment" THEN <<assignment_to_ir1(toplevel_elem)>>
    ELSE IF toplevel_elem.kind = "Assert" THEN <<assert_to_ir1(toplevel_elem)>>
    ELSE IF toplevel_elem.kind = "CustomType" THEN <<custom_type_to_ir1(toplevel_elem)>>
    ELSE IF toplevel_elem.kind = "CheckIfErrorDefn" THEN <<check_if_error_defn_to_ir1(toplevel_elem)>>
    ELSE <<RaisedError(NotImplementedError, "Unexpected toplevel element")>>

(***************************************************************************)
(* The modules lowered by Pass A and then by Pass B: the function g, a      *)
(* function f over lists of every element type or with one of the bodies    *)
(* over collections, and module-level assertions with and without helper    *)
(* functions.                                                               *)
(***************************************************************************)
l_ref(elem_type) == ir3_VarReference(ListType(elem_type), "l", FALSE, FALSE)

m_ref(elem_type) == ir3_VarReference(ListType(elem_type), "m", FALSE, FALSE)

(* l = [e, e] ; m = l + l ; return x *)
ListBody(elem) ==
    << ir3_Assignment(l_ref(elem.type), ir3_ListExpr(elem.type, <<elem, elem>>)),
       ir3_Assignment(m_ref(elem.type),
                      ir3_Binary("ListConcatExpr", ListType(elem.type), l_ref(elem.type), l_ref(elem.type), "+")),
       RetX >>

ListElems ==
    { ir3_BoolLiteral(TRUE), ir3_IntLiteral(1), ir3_TypeLiteral("int", <<>>), g_ref,
      ir3_ListExpr(IntType, <<ir3_IntLiteral(1)>>),
      ir3_FunctionCall(constructor_ref("E1"), <<x_ref>>) }

PassBBodies == { ListBody(e) : e \in ListElems } \cup CollectionBodies \cup { <<AssignCallG, RetY>>, <<RetG>> }

(* sum([g(v) for v in [1, 2]]) == 0 *)
ComprehensionAssertion ==
    ir3_Assert(ir3_EqualityComparison(
                   ir3_IntListSumExpr(
                       ir3_ListComprehension(ir3_ListExpr(IntType, <<ir3_IntLiteral(1), ir3_IntLiteral(2)>>), v_ref,
                                             ir3_FunctionCall(g_ref, <<v_ref>>))),
                   ir3_IntLiteral(0)),
               "sum is 0")

(* g(0) == 0 and g(3) == 3 *)
AndAssertion ==
    ir3_Assert(ir3_AndExpr(ir3_EqualityComparison(ir3_FunctionCall(g_ref, <<ir3_IntLiteral(0)>>), ir3_IntLiteral(0)),
                           ir3_EqualityComparison(ir3_FunctionCall(g_ref, <<ir3_IntLiteral(3)>>), ir3_IntLiteral(3))),
               "g is the identity")

PassBAssertionLists ==
    { <<>>, ModuleAssertions, <<ComprehensionAssertion>>, ModuleAssertions \o <<ComprehensionAssertion>>,
      <<AndAssertion>> }

(* if {a1, a2} == {b1, b2}: return x  (or the same over lists) ; return y *)
IntLiterals(ints) == [i \in 1..Len(ints) |-> ir3_IntLiteral(ints[i])]

SetLiteral(ints) == ir3_SetExpr(IntType, IntLiterals(ints))

ListLiteral(ints) == ir3_ListExpr(IntType, IntLiterals(ints))

ComparedElements == { <<1, 2>>, <<2, 1>>, <<1, 3>>, <<1, 1, 2>> }

EqualityBody(lhs, rhs) == <<ir3_IfStmt(ir3_EqualityComparison(lhs, rhs), <<RetX>>, <<>>), RetLit>>

EqualityBodies ==
    { EqualityBody(SetLiteral(a), SetLiteral(b)) : a \in ComparedElements, b \in ComparedElements }
    \cup { EqualityBody(ListLiteral(a), ListLiteral(b)) : a \in ComparedElements, b \in ComparedElements }

(* b = (x == 1) ; if x == 2 and <rhs>: return x  (or the same with or) ; return 5 *)
b_ref == ir3_VarReference(BoolType, "b", FALSE, FALSE)

AndOrOperands ==
    { b_ref, XEquals(3), ir3_Unary("NotExpr", BoolType, b_ref), ir3_AndExpr(XEquals(3), XEquals(0)),
      ir3_EqualityComparison(CallG, ir3_IntLiteral(3)) }

AndOrBody(cond_expr) ==
    <<ir3_Assignment(b_ref, XEquals(1)), ir3_IfStmt(cond_expr, <<RetX>>, <<>>), RetLit>>

AndOrBodies ==
    { AndOrBody(ir3_AndExpr(XEquals(2), rhs)) : rhs \in AndOrOperands }
    \cup { AndOrBody(ir3_OrExpr(XEquals(2), rhs)) : rhs \in AndOrOperands }

PassBModules ==
    { ir3_Module(<<ExceptionType("E1"), ExceptionType("E2")>>, <<G_defn, F_defn(b)>>, a) :
          b \in PassBBodies, a \in PassBAssertionLists }
    \cup
    { ir3_Module(<<ExceptionType("E1"), ExceptionType("E2")>>, <<G_defn, F_defn(b)>>, ModuleAssertions) :
          b \in AndOrBodies }
    \cup
    { ir3_Module(<<ExceptionType("E1"), ExceptionType("E2")>>, <<G_defn, F_defn(b)>>, ModuleAssertions) :
          b \in EqualityBodies }

(* module_to_ir2 as one step. *)
RECURSIVE function_defns_to_ir2(_, _)
function_defns_to_ir2(function_defns, fw) ==
    IF function_defns = <<>> THEN fw
    ELSE Bind(function_defn_to_ir2(Head(function_defns), fw), LAMBDA w : function_defns_to_ir2(Tail(function_defns), w))

module_to_ir2(ir3_module) ==
    Bind(function_defns_to_ir2(ir3_module.function_defns, FunWriter(FirstId)), LAMBDA fw :
    Bind(assertions_to_ir2(ir3_module.assertions, StmtWriter(fw, None)), LAMBDA stmt_writer :
    Bind(module_body(ir3_module.custom_types, stmt_writer.fun_writer, stmt_writer.stmts), LAMBDA body :
        [kind |-> "Module", body |-> body])))

(***************************************************************************)
(* Modules with one node of a class the pass has no case for, at a place    *)
(* the pass dispatches on: a statement, an expression, a type or an         *)
(* element of the module.                                                   *)
(***************************************************************************)
y_of_type(type) == ir3_VarReference(type, "y", FALSE, FALSE)

TryG(then_stmts) == <<ir3_TryExcept(<<AssignCallG>>, ExceptionType("E1"), "e", <<RetLit>>)>> \o then_stmts

Ir3BodiesWithUnrecognizedStmt ==
    { <<Unrecognized, RetX>>,
      <<AssignCallG, Unrecognized>>,
      <<ir3_IfStmt(XEquals(1), <<Unrecognized>>, <<RetX>>), RetX>>,
      <<ir3_IfStmt(XEquals(1), <<RetX>>, <<AssignLit, Unrecognized>>), RetX>>,
      <<ir3_TryExcept(<<Unrecognized, AssignCallG>>, ExceptionType("E1"), "e", <<RetLit>>), RetY>>,
      <<ir3_TryExcept(<<AssignCallG>>, ExceptionType("E1"), "e", <<Unrecognized, RetLit>>), RetY>>,
      TryG(<<Unrecognized, RetY>>),
      TryG(<<RetY, Unrecognized>>) }

Ir3BodiesWithUnrecognizedExpr ==
    { <<ir3_Assignment(y_ref, Unrecognized), RetY>>,
      <<ir3_ReturnStmt(Unrecognized)>>,
      <<ir3_RaiseStmt(Unrecognized)>>,
      <<ir3_IfStmt(Unrecognized, <<RetX>>, <<>>), RetX>>,
      <<ir3_Assignment(y_ref, ir3_FunctionCall(g_ref, <<Unrecognized>>)), RetY>>,
      <<ir3_IfStmt(ir3_AndExpr(XEquals(1), Unrecognized), <<RetX>>, <<>>), RetX>>,
      <<ir3_IfStmt(ir3_EqualityComparison(x_ref, Unrecognized), <<RetX>>, <<>>), RetX>>,
      <<ir3_Assignment(l_ref(IntType), ir3_ListExpr(IntType, <<x_ref, Unrecognized>>)), RetX>>,
      <<ir3_Assignment(y_ref, ir3_IntListSumExpr(Unrecognized)), RetY>>,
      <<ir3_Assert(Unrecognized, "unrecognized"), RetX>>,
      TryG(<<ir3_ReturnStmt(Unrecognized)>>) }

Ir3BodiesWithUnrecognizedType ==
    { <<ir3_Assignment(y_of_type(Unrecognized), x_ref), RetX>>,
      <<ir3_Assignment(y_of_type(ListType(Unrecognized)), x_ref), RetX>>,
      <<ir3_Assignment(y_of_type(SetType(Unrecognized)), x_ref), RetX>>,
      <<ir3_Assignment(y_of_type(FunctionType(<<IntType, Unrecognized>>, IntType)), x_ref), RetX>>,
      <<ir3_Assignment(y_of_type(FunctionType(<<IntType>>, Unrecognized)), x_ref), RetX>>,
      <<ir3_Assignment(l_ref(IntType), ir3_ListExpr(Unrecognized, <<x_ref>>)), RetX>>,
      <<ir3_Assignment(y_ref, ir3_AttributeAccessExpr(e_ref("E1"), "code", Unrecognized)), RetY>>,
      <<ir3_TryExcept(<<AssignCallG>>, Unrecognized, "e", <<RetLit>>), RetY>> }

TwoExceptionTypes == <<ExceptionType("E1"), ExceptionType("E2")>>

(* An exception class with a field of an unrecognized type. *)
ExceptionTypeWithUnrecognizedField ==
    ir3_CustomType("E2", <<CustomTypeArgDecl("code", Unrecognized)>>, TRUE, "E2 was raised")

Ir3ModulesWithBodies(bodies) ==
    { ir3_Module(TwoExceptionTypes, <<G_defn, F_defn(b)>>, ModuleAssertions) : b \in bodies }

Ir3WithUnrecognizedStmt == Ir3ModulesWithBodies(Ir3BodiesWithUnrecognizedStmt)

Ir3WithUnrecognizedExpr ==
    Ir3ModulesWithBodies(Ir3BodiesWithUnrecognizedExpr)
    \cup
    { ir3_Module(TwoExceptionTypes, <<G_defn, F_defn(<<RetX>>)>>, a) :
          a \in { <<ir3_Assert(Unrecognized, "unrecognized")>>,
                  ModuleAssertions
                  \o <<ir3_Assert(ir3_EqualityComparison(Unrecognized, ir3_IntLiteral(0)), "unrecognized")>> } }

Ir3WithUnrecognizedType ==
    Ir3ModulesWithBodies(Ir3BodiesWithUnrecognizedType)
    \cup
    { ir3_Module(TwoExceptionTypes, d, ModuleAssertions) :
          d \in { <<G_defn, ir3_FunctionDefn("f", <<FunctionArgDecl(IntType, "x")>>, <<RetX>>, Unrecognized)>>,
                  <<G_defn, ir3_FunctionDefn("f", <<FunctionArgDecl(Unrecognized, "x")>>, <<RetLit>>, IntType)>> } }
    \cup
    { ir3_Module(t, <<G_defn, F_defn(<<RetX>>)>>, ModuleAssertions) :
          t \in { <<ExceptionType("E1"), Unrecognized>>, <<Unrecognized, ExceptionType("E2")>>,
                  <<ExceptionType("E1"), ExceptionTypeWithUnrecognizedField>> } }

(* An object that is no function definition among the functions, or no     *)
(* assertion among the assertions.                                          *)
Ir3WithUnrecognizedElement ==
    { ir3_Module(TwoExceptionTypes, <<G_defn, F_defn(<<RetX>>)>>, a) :
          a \in { ModuleAssertions \o <<Unrecognized>>, <<Unrecognized>> \o ModuleAssertions } }
    \cup
    { ir3_Module(TwoExceptionTypes, d, ModuleAssertions) :
          d \in { <<G_defn, Unrecognized>>, <<Unrecognized, G_defn>> } }

Ir3UnrecognizedModules ==
    Ir3WithUnrecognizedStmt \cup Ir3WithUnrecognizedExpr \cup Ir3WithUnrecognizedType \cup Ir3WithUnrecognizedElement

(* The ir2 modules Pass B is given when its input holds such a node: the    *)
(* output of Pass A for a module over lists, with one node replaced.        *)
Ir2BaseModules ==
    { module_to_ir2(ir3_Module(TwoExceptionTypes, <<G_defn, F_defn(b)>>, ModuleAssertions)) :
          b \in { ListBody(ir3_IntLiteral(1)), ListComprehensionBody } }

FunctionsOf(ir2_module) == { i \in 1..Len(ir2_module.body) : ir2_module.body[i].kind = "FunctionDefn" }

StmtsOfKind(function_defn, kinds) == { j \in 1..Len(function_defn.body) : function_defn.body[j].kind \in kinds }

Ir2WithUnrecognizedToplevel(m) == { [m EXCEPT !.body[i] = Unrecognized] : i \in 1..Len(m.body) }

Ir2WithUnrecognizedStmt(m) ==
    UNION { { [m EXCEPT !.body[i].body[j] = Unrecognized] : j \in 1..Len(m.body[i].body) } : i \in FunctionsOf(m) }
    \cup
    UNION { { [m EXCEPT !.body[i].body[j].if_stmts[1] = Unrecognized] : j \in StmtsOfKind(m.body[i], {"IfStmt"}) } :
                i \in FunctionsOf(m) }

Ir2WithUnrecognizedExpr(m) ==
    UNION { { [m EXCEPT !.body[i].body[j].rhs = Unrecognized] : j \in StmtsOfKind(m.body[i], {"Assignment"}) } :
                i \in FunctionsOf(m) }
    \cup
    { [m EXCEPT !.body[i].rhs = Unrecognized] : i \in { k \in 1..Len(m.body) : m.body[k].kind = "Assignment" } }

Ir2WithUnrecognizedType(m) ==
    UNION { { [m EXCEPT !.body[i].body[j].lhs.type = Unrecognized] : j \in StmtsOfKind(m.body[i], {"Assignment"}) } :
                i \in FunctionsOf(m) }
    \cup
    UNION { { [m EXCEPT !.body[i].body[j].rhs.type.elem_type = Unrecognized] :
                  j \in { k \in StmtsOfKind(m.body[i], {"Assignment"}) : m.body[i].body[k].rhs.kind = "ListExpr" } } :
                i \in FunctionsOf(m) }
    \cup
    UNION { { [m EXCEPT !.body[i].body[j].cond.type = Unrecognized] : j \in StmtsOfKind(m.body[i], {"IfStmt"}) } :
                i \in FunctionsOf(m) }
    \cup
    UNION { { [m EXCEPT !.body[i].body[j].result.type = Unrecognized] :
                  j \in { k \in StmtsOfKind(m.body[i], {"ReturnStmt"}) : ~IsNone(m.body[i].body[k].result) } } :
                i \in FunctionsOf(m) }
    \cup
    { [m EXCEPT !.body[i].return_type = Unrecognized] : i \in FunctionsOf(m) }
    \cup
    { [m EXCEPT !.body[i].args[1].type = Unrecognized] : i \in { k \in FunctionsOf(m) : m.body[k].args # <<>> } }
    \cup
    { [m EXCEPT !.body[1].arg_types[1].type = Unrecognized],
      [m EXCEPT !.body[3].error_types_and_messages[2].type.arg_types[1].type = Unrecognized] }

Ir2UnrecognizedModules ==
    UNION { Ir2WithUnrecognizedToplevel(m) \cup Ir2WithUnrecognizedStmt(m)
            \cup Ir2WithUnrecognizedExpr(m) \cup Ir2WithUnrecognizedType(m) : m \in Ir2BaseModules }

(***************************************************************************)
(* The two passes as a state machine: module_to_ir2, then module_to_ir1     *)
(* element by element.  module is the input of the pass at work, output     *)
(* what Pass B returns or the exception the pass at work raised.            *)
(***************************************************************************)
PassBInit ==
    /\ \/ module \in PassBModules \cup Ir3UnrecognizedModules /\ pc = "ir3"
       \/ module \in Ir2UnrecognizedModules /\ pc = "ir2"
    /\ fun_index = 1
    /\ fun_writer = None
    /\ toplevel_stmts = <<>>
    /\ output = None
    /\ symbol_table = None
    /\ ir_function_defns = <<>>

ModuleToIr2 ==
    /\ pc = "ir3"
    /\ IF IsRaised(module_to_ir2(module))
       THEN /\ output' = module_to_ir2(module)
            /\ pc' = "ir2_raised"
            /\ UNCHANGED module
       ELSE /\ module' = module_to_ir2(module)
            /\ pc' = "ir2"
            /\ UNCHANGED output
    /\ UNCHANGED <<fun_index, fun_writer, toplevel_stmts>>
    /\ UNCHANGED sema_vars

(* ir2_to_ir1.py 398 *)
NewIr1FunWriter ==
    /\ pc = "ir2"
    /\ fun_writer' = [kind |-> "ir1.FunWriter", elems |-> <<>>]
    /\ fun_index' = 1
    /\ pc' = "toplevel"
    /\ UNCHANGED <<module, toplevel_stmts, output>>
    /\ UNCHANGED sema_vars

(* ir2_to_ir1.py 399-411 *)
ToplevelElemToIr1 ==
    /\ pc = "toplevel"
    /\ fun_index <= Len(module.body)
    /\ IF HasRaisedIn(toplevel_elem_to_ir1(module.body[fun_index]))
       THEN /\ output' = FirstRaised(toplevel_elem_to_ir1(module.body[fun_index]))
            /\ pc' = "ir1_raised"
            /\ UNCHANGED fun_writer
       ELSE /\ fun_writer' = [fun_writer EXCEPT
                                 !.elems = write_elems(@, toplevel_elem_to_ir1(module.body[fun_index]))]
            /\ UNCHANGED <<pc, output>>
    /\ fun_index' = fun_index + 1
    /\ UNCHANGED <<module, toplevel_stmts>>
    /\ UNCHANGED sema_vars

(* ir2_to_ir1.py 413 *)
ReturnIr1Module ==
    /\ pc = "toplevel"
    /\ fun_index > Len(module.body)
    /\ output' = [kind |-> "ir1.Module", body |-> fun_writer.elems]
    /\ pc' = "ir1_done"
    /\ UNCHANGED <<module, fun_index, fun_writer, toplevel_stmts>>
    /\ UNCHANGED sema_vars

PassBNext == ModuleToIr2 \/ NewIr1FunWriter \/ ToplevelElemToIr1 \/ ReturnIr1Module

SpecB == PassBInit /\ [][PassBNext]_vars

(***************************************************************************)
(* Order of the top-level elements                                          *)
(***************************************************************************)
KindsOf(elems) == [i \in 1..Len(elems) |-> elems[i].kind]

NumOfKind(elems, kind) == Cardinality({ i \in 1..Len(elems) : elems[i].kind = kind })

NamesOfKind(elems, kind) == { elems[i].name : i \in { j \in 1..Len(elems) : elems[j].kind = kind } }

IsStatementKind(kind) == kind \in {"Assignment", "Assert", "IfStmt", "UnpackingAssignment", "ReturnStmt"}

(* The sections of a Pass A output: n custom types, the check definition,   *)
(* k function definitions, then statements only.                            *)
InSections(body, n, k) ==
    /\ Len(body) >= n + 1 + k
    /\ \A i \in 1..Len(body) :
           body[i].kind = IF i <= n THEN "CustomType"
                          ELSE IF i = n + 1 THEN "CheckIfErrorDefn"
                          ELSE IF i <= n + 1 + k THEN "FunctionDefn"
                          ELSE body[i].kind
    /\ \A i \in (n + 2 + k)..Len(body) : IsStatementKind(body[i].kind)

(* The helper functions a lowered top-level statement calls. *)
HelpersCalledBy(stmt) ==
    IF stmt.kind = "Assignment" /\ stmt.rhs.kind = "ListComprehensionExpr"
    THEN {stmt.rhs.result_elem_expr.fun.name}
    ELSE {}

PassAOrder(ir3_module, ir2_module) ==
    /\ \E k \in 0..Len(ir2_module.body) : InSections(ir2_module.body, Len(ir3_module.custom_types), k)
    /\ \A i \in 1..Len(ir3_module.custom_types) : ir2_module.body[i].name = ir3_module.custom_types[i].name
    /\ NumOfKind(ir2_module.body, "CheckIfErrorDefn") = 1
    /\ \A i \in 1..Len(ir3_module.function_defns) :
           ir3_module.function_defns[i].name \in NamesOfKind(ir2_module.body, "FunctionDefn")
    /\ \A i \in 1..Len(ir2_module.body) :
           IsStatementKind(ir2_module.body[i].kind)
               => HelpersCalledBy(ir2_module.body[i]) \subseteq NamesOfKind(ir2_module.body, "FunctionDefn")
    /\ NumOfKind(ir2_module.body, "Assert") = Len(ir3_module.assertions)

PassBKeepsOrder(ir2_module, ir1_module) ==
    /\ Len(ir1_module.body) = Len(ir2_module.body)
    /\ \A i \in 1..Len(ir2_module.body) :
           /\ ir1_module.body[i].kind = "ir1." \o ir2_module.body[i].kind
           /\ ir2_module.body[i].kind \in {"CustomType", "FunctionDefn"}
                  => ir1_module.body[i].name = ir2_module.body[i].name

(* C19: the output of Pass A lists the custom types, then exactly one       *)
(* error-classification check definition, then all function definitions     *)
(* (those of the source and the synthesized ones, the helpers of the        *)
(* module-level assertions included), then the lowered module-level         *)
(* assertion statements; the module Pass B returns has the same elements    *)
(* in the same order.                                                       *)
C19_ToplevelOrder ==
    [][/\ (pc = "ir3" /\ pc' = "ir2") => PassAOrder(module, module')
       /\ pc' = "ir1_done" => PassBKeepsOrder(module', output')]_vars

(* Pass B has returned a module whose assertion statements follow a helper *)
(* function synthesized for one of them.                                    *)
C19_Witness ==
    /\ pc = "ir1_done"
    /\ \E i \in 1..Len(module.body) :
           /\ IsStatementKind(module.body[i].kind)
           /\ HelpersCalledBy(module.body[i]) # {}
           /\ \E j \in 1..(i - 1) : /\ module.body[j].kind = "FunctionDefn"
                                    /\ module.body[j].name \in HelpersCalledBy(module.body[i])
                                    /\ output.body[j].kind = "ir1.FunctionDefn"
                                    /\ output.body[j].name = module.body[j].name
    /\ NumOfKind(output.body, "ir1.Assert") = 2

(***************************************************************************)
(* Backing templates of lists                                               *)
(***************************************************************************)
(* The element kinds of the specification. *)
ElementFamily(elem_type) ==
    IF elem_type.kind = "BoolType" THEN "bool"
    ELSE IF elem_type.kind = "IntType" THEN "int"
    ELSE IF elem_type.kind = "FunctionType" THEN "other"
    ELSE "type"

ConstructionTemplate(family) ==
    IF family = "bool" THEN "BoolList" ELSE IF family = "int" THEN "Int64List" ELSE "List"

ConcatenationTemplate(family) ==
    IF family = "bool" THEN "BoolListConcat" ELSE IF family = "int" THEN "Int64ListConcat" ELSE "TypeListConcat"

IsListOperation(stmt) == stmt.kind = "Assignment" /\ stmt.rhs.kind \in {"ListExpr", "ListConcatExpr"}

(* The list constructions and concatenations in the bodies of the top-level *)
(* functions Pass B has met: <<i, j>> is statement j of element i.          *)
ListOperationsMet ==
    IF pc \in {"toplevel", "ir1_done", "ir1_raised"}
    THEN UNION { { <<i, j>> : j \in { k \in 1..Len(module.body[i].body) : IsListOperation(module.body[i].body[k]) } } :
                     i \in { e \in 1..(fun_index - 1) : module.body[e].kind = "FunctionDefn" } }
    ELSE {}

UsesBackingTemplate(ir2_expr, ir1_expr) ==
    IF ir2_expr.kind = "ListExpr"
    THEN /\ ir1_expr.kind = "ir1.TemplateInstantiation"
         /\ ir1_expr.template_name = ConstructionTemplate(ElementFamily(ir2_expr.type.elem_type))
    ELSE /\ ir1_expr.kind = "ir1.ClassMemberAccess"
         /\ ir1_expr.class_type_expr.kind = "ir1.TemplateInstantiation"
         /\ ir1_expr.class_type_expr.template_name = ConcatenationTemplate(ElementFamily(ir2_expr.type.elem_type))

Ir2With(Injected(_)) == UNION { Injected(m) : m \in Ir2BaseModules }

(* What the pass at work, given an input with an unrecognized node of the   *)
(* category, has to raise.                                                  *)
RaisedAt(error, at) == IsRaised(output') /\ output'.error = error /\ output'.at = at

PassARaisesAtTheNode ==
    /\ module \in Ir3WithUnrecognizedStmt => RaisedAt(NotImplementedError, "Unexpected statement")
    /\ module \in Ir3WithUnrecognizedExpr => RaisedAt(NotImplementedError, "Unexpected expression")
    /\ module \in Ir3WithUnrecognizedType => RaisedAt(NotImplementedError, "Unexpected type")
    /\ module \in Ir3WithUnrecognizedElement => IsRaised(output') /\ output'.error = AttributeError

PassBRaisesAtTheNode ==
    /\ module \in Ir2With(Ir2WithUnrecognizedToplevel) => RaisedAt(NotImplementedError, "Unexpected toplevel element")
    /\ module \in Ir2With(Ir2WithUnrecognizedStmt) => RaisedAt(NotImplementedError, "Unexpected statement")
    /\ module \in Ir2With(Ir2WithUnrecognizedExpr) => RaisedAt(NotImplementedError, "Unexpected expression")
    /\ module \in Ir2With(Ir2WithUnrecognizedType) => RaisedAt(NotImplementedError, "Unexpected type")

(* The element of the module that holds the unrecognized node. *)
ElementWithUnrecognized(ir2_module) ==
    CHOOSE i \in 1..Len(ir2_module.body) :
        \E m \in Ir2BaseModules : /\ Len(m.body) = Len(ir2_module.body)
                                  /\ \A j \in 1..Len(m.body) : (ir2_module.body[j] # m.body[j]) <=> (j = i)

(* C20: a pass that meets a type, an expression, a statement or a top-level *)
(* element of a kind it does not recognize raises an error at that node and *)
(* returns no module: the node is never skipped or replaced by a guess.     *)
C20_UnrecognizedNodeAbortsThePass ==
    [][/\ pc = "ir3" /\ module \in Ir3UnrecognizedModules
           => pc' = "ir2_raised" /\ PassARaisesAtTheNode
       /\ module \in Ir2UnrecognizedModules
           => /\ pc' # "ir1_done" /\ ~(pc' = "toplevel" /\ fun_index' > Len(module.body))
              /\ (pc = "toplevel" /\ fun_index = ElementWithUnrecognized(module))
                     => pc' = "ir1_raised" /\ PassBRaisesAtTheNode]_vars

(* Pass B has raised at an unrecognized statement in the body of a function *)
(* after converting the elements before it.                                 *)
C20_Witness ==
    /\ module \in Ir2With(Ir2WithUnrecognizedStmt)
    /\ pc = "ir1_raised"
    /\ output = RaisedError(NotImplementedError, "Unexpected statement")
    /\ fun_writer.elems # <<>>

(***************************************************************************)
(* Equality of sets                                                         *)
(***************************************************************************)
(* The statement of a statement list that assigns the variable. *)
AssignmentTo(stmts, name) ==
    stmts[CHOOSE j \in 1..Len(stmts) : stmts[j].kind = "Assignment" /\ stmts[j].lhs.name = name]

IntAssignedTo(stmts, name) == AssignmentTo(stmts, name).rhs.ivalue

(* AddToSetExpr: the list with the element at its end, unless the list      *)
(* holds it already.                                                        *)
AddToSet(list, elem) == IF elem \in Range(list) THEN list ELSE Append(list, elem)

(* The list that backs the list or set variable after the statements. *)
RECURSIVE BackingList(_, _)
BackingList(stmts, name) ==
    IF AssignmentTo(stmts, name).rhs.kind = "ListExpr"
    THEN [i \in 1..Len(AssignmentTo(stmts, name).rhs.elems) |->
             IntAssignedTo(stmts, AssignmentTo(stmts, name).rhs.elems[i].name)]
    ELSE AddToSet(BackingList(stmts, AssignmentTo(stmts, name).rhs.set_expr.name),
                  IntAssignedTo(stmts, AssignmentTo(stmts, name).rhs.elem_expr.name))

(* What a comparison of two lists evaluates to: element by element for an   *)
(* equality comparison, by the elements held for a set-equality comparison. *)
EvalComparison(stmts, comparison) ==
    IF comparison.kind = "SetEqualityComparison"
    THEN Range(BackingList(stmts, comparison.lhs.name)) = Range(BackingList(stmts, comparison.rhs.name))
    ELSE BackingList(stmts, comparison.lhs.name) = BackingList(stmts, comparison.rhs.name)

IsComparison(stmt) ==
    stmt.kind = "Assignment" /\ stmt.rhs.kind \in {"EqualityComparison", "SetEqualityComparison"}

FunctionNamed(ir2_module, name) ==
    ir2_module.body[CHOOSE i \in 1..Len(ir2_module.body) :
                        ir2_module.body[i].kind = "FunctionDefn" /\ ir2_module.body[i].name = name]

ComparisonsOf(stmts) == SelectSeq(stmts, IsComparison)

LiteralInts(literal) == [i \in 1..Len(literal.elem_exprs) |-> literal.elem_exprs[i].ivalue]

(* The source compares two literals of sets with the same elements. *)
ComparesEqualSets(ir3_module) ==
    /\ ir3_module \in PassBModules
    /\ ir3_module.function_defns[2].body \in EqualityBodies
    /\ ir3_module.function_defns[2].body[1].cond_expr.lhs.kind = "SetExpr"
    /\ Range(LiteralInts(ir3_module.function_defns[2].body[1].cond_expr.lhs))
           = Range(LiteralInts(ir3_module.function_defns[2].body[1].cond_expr.rhs))

LoweredComparison(ir3_module, ir2_module) ==
    /\ Len(ComparisonsOf(FunctionNamed(ir2_module, "f").body)) = 1
    /\ ComparisonsOf(FunctionNamed(ir2_module, "f").body)[1].rhs.kind
           = IF ir3_module.function_defns[2].body[1].cond_expr.lhs.type.kind = "SetType"
             THEN "SetEqualityComparison" ELSE "EqualityComparison"
    /\ \E j \in 1..Len(FunctionNamed(ir2_module, "f").body) :
           /\ FunctionNamed(ir2_module, "f").body[j].kind = "IfStmt"
           /\ FunctionNamed(ir2_module, "f").body[j].cond = ComparisonsOf(FunctionNamed(ir2_module, "f").body)[1].lhs
    /\ ComparesEqualSets(ir3_module)
           => EvalComparison(FunctionNamed(ir2_module, "f").body,
                             ComparisonsOf(FunctionNamed(ir2_module, "f").body)[1].rhs)

(* C21: an equality comparison whose left operand is a set is lowered to a  *)
(* set-equality comparison, never to a plain one, and two set literals with *)
(* the same elements compare equal under it, whatever the order of their    *)
(* backing lists.                                                           *)
C21_SetEqualityIgnoresOrder ==
    [][(pc = "ir3" /\ pc' = "ir2" /\ module \in PassBModules /\ module.function_defns[2].body \in EqualityBodies)
           => LoweredComparison(module, module')]_vars

(* Pass B has kept the set-equality comparison of {1, 2} and {2, 1}, whose  *)
(* backing lists differ.                                                    *)
C21_Witness ==
    /\ pc = "ir1_done"
    /\ Len(ComparisonsOf(FunctionNamed(module, "f").body)) = 1
    /\ ComparisonsOf(FunctionNamed(module, "f").body)[1].rhs.kind = "SetEqualityComparison"
    /\ BackingList(FunctionNamed(module, "f").body, ComparisonsOf(FunctionNamed(module, "f").body)[1].rhs.lhs.name)
           = <<1, 2>>
    /\ BackingList(FunctionNamed(module, "f").body, ComparisonsOf(FunctionNamed(module, "f").body)[1].rhs.rhs.name)
           = <<2, 1>>
    /\ EvalComparison(FunctionNamed(module, "f").body, ComparisonsOf(FunctionNamed(module, "f").body)[1].rhs)
    /\ \E i \in 1..Len(output.body) :
           /\ output.body[i].kind = "ir1.FunctionDefn"
           /\ output.body[i].name = "f"
           /\ \E j \in 1..Len(output.body[i].body) :
                  /\ output.body[i].body[j].kind = "ir1.Assignment"
                  /\ output.body[i].body[j].rhs.kind = "ir1.SetEqualityComparison"

(***************************************************************************)
(* and / or                                                                 *)
(***************************************************************************)
IfStmtsOf(stmts) == SelectSeq(stmts, LAMBDA stmt : stmt.kind = "IfStmt")

(* In the body lowered from AndOrBody: the if/else written for the and/or   *)
(* expression and the variable that holds its value, which the if of the    *)
(* source tests.                                                            *)
AndOrIfStmt(stmts) == IfStmtsOf(stmts)[1]

AndOrResult(stmts) == IfStmtsOf(stmts)[2].cond

(* Some statement of the list, or of an if/else in it, assigns the variable. *)
RECURSIVE Assigns(_, _)
Assigns(stmts, var) ==
    \E j \in 1..Len(stmts) :
        \/ stmts[j].kind = "Assignment" /\ stmts[j].lhs = var
        \/ stmts[j].kind = "IfStmt" /\ (Assigns(stmts[j].if_stmts, var) \/ Assigns(stmts[j].else_stmts, var))

AssignsName(stmts, name) == \E j \in 1..Len(stmts) : stmts[j].kind = "Assignment" /\ stmts[j].lhs.name = name

(* The arm taken when the right operand is evaluated, and the other one. *)
EvaluatingArm(cond_expr, if_stmt) == IF cond_expr.kind = "AndExpr" THEN if_stmt.if_stmts ELSE if_stmt.else_stmts

ShortCircuitArm(cond_expr, if_stmt) == IF cond_expr.kind = "AndExpr" THEN if_stmt.else_stmts ELSE if_stmt.if_stmts

ArgNames(function_defn) == { function_defn.args[i].name : i \in 1..Len(function_defn.args) }

AndOrLowering(cond_expr, function_defn) ==
    /\ Len(IfStmtsOf(function_defn.body)) = 2
    /\ Assigns(EvaluatingArm(cond_expr, AndOrIfStmt(function_defn.body)), AndOrResult(function_defn.body))
    /\ Assigns(ShortCircuitArm(cond_expr, AndOrIfStmt(function_defn.body)), AndOrResult(function_defn.body))
    /\ ~AssignsName(function_defn.body, AndOrResult(function_defn.body).name)
    /\ AndOrResult(function_defn.body).name \notin ArgNames(function_defn)
    /\ ShortCircuitArm(cond_expr, AndOrIfStmt(function_defn.body))
           = <<Assignment(AndOrResult(function_defn.body), None, BoolLiteral(cond_expr.kind = "OrExpr"))>>
    /\ \E j \in 2..Len(function_defn.body) :
           /\ function_defn.body[j] = AndOrIfStmt(function_defn.body)
           /\ function_defn.body[j - 1].kind = "Assignment"
           /\ function_defn.body[j - 1].lhs = function_defn.body[j].cond
           /\ function_defn.body[j - 1].rhs.kind = "EqualityComparison"

(* C22: a and b, and mirrored a or b, is lowered to an if/else on a whose   *)
(* two arms assign the same result variable; the variable is new, no        *)
(* variable of the source, also when b is a plain variable; the statements  *)
(* that evaluate b are in the arm taken when a is true (for or: false)      *)
(* only.                                                                    *)
C22_AndOrAssignFreshResult ==
    [][(pc = "ir3" /\ pc' = "ir2" /\ module \in PassBModules /\ module.function_defns[2].body \in AndOrBodies)
           => AndOrLowering(module.function_defns[2].body[2].cond_expr, FunctionNamed(module', "f"))]_vars

(* The same for the right operands that are no plain variable. *)
C22_HoldsUnlessPlainVariable ==
    [][(/\ pc = "ir3" /\ pc' = "ir2" /\ module \in PassBModules /\ module.function_defns[2].body \in AndOrBodies
        /\ module.function_defns[2].body[2].cond_expr.rhs.kind # "VarReference")
           => AndOrLowering(module.function_defns[2].body[2].cond_expr, FunctionNamed(module', "f"))]_vars

(***************************************************************************)
(* The statements that follow a try/except.  In the function bodies of     *)
(* Modules "return y" stands only after a try/except, so every "return y"  *)
(* of the source is a statement following a try/except.                     *)
(***************************************************************************)
RECURSIVE NumFollowingStmts(_)
NumFollowingStmts(stmts) ==
    IF stmts = <<>> THEN 0
    ELSE NumFollowingStmts(Tail(stmts))
         + CASE Head(stmts) = RetY -> 1
             [] Head(stmts).kind = "IfStmt" ->
                    NumFollowingStmts(Head(stmts).if_stmts) + NumFollowingStmts(Head(stmts).else_stmts)
             [] Head(stmts).kind = "TryExcept" ->
                    NumFollowingStmts(Head(stmts).try_body) + NumFollowingStmts(Head(stmts).except_body)
             [] OTHER -> 0

(* What "return y" is lowered to: the return of the obfuscated y. *)
IsLoweredRetY(stmt) ==
    /\ stmt.kind = "ReturnStmt"
    /\ IsNone(stmt.error)
    /\ "y" \in DOMAIN ObfuscationMap
    /\ stmt.result.name = ObfuscationMap["y"]

RECURSIVE NumLoweredRetY(_)
NumLoweredRetY(stmts) ==
    IF stmts = <<>> THEN 0
    ELSE NumLoweredRetY(Tail(stmts))
         + CASE IsLoweredRetY(Head(stmts)) -> 1
             [] Head(stmts).kind = "IfStmt" ->
                    NumLoweredRetY(Head(stmts).if_stmts) + NumLoweredRetY(Head(stmts).else_stmts)
             [] OTHER -> 0

ThenFuns == FunctionsDescribed(ThenFunDescription)

OutputF == OutputFunctions[CHOOSE i \in 1..Len(OutputFunctions) : OutputFunctions[i].name = "f"]

RECURSIVE CallsFunction(_, _)
CallsFunction(stmts, name) ==
    \E j \in 1..Len(stmts) :
        \/ stmts[j].kind = "Assignment" /\ stmts[j].rhs.kind = "FunctionCall" /\ stmts[j].rhs.fun.name = name
        \/ stmts[j].kind = "IfStmt" /\ (CallsFunction(stmts[j].if_stmts, name) \/ CallsFunction(stmts[j].else_stmts, name))

(* The list ends with: result, error = fun(...); b = is_error(error);      *)
(* if b: ...; return result.                                               *)
EndsWithCheckedCall(stmts, name) ==
    /\ Len(stmts) >= 4
    /\ stmts[Len(stmts) - 3].kind = "Assignment"
    /\ stmts[Len(stmts) - 3].rhs.kind = "FunctionCall"
    /\ stmts[Len(stmts) - 3].rhs.fun.name = name
    /\ IsCheckedAt(stmts, Len(stmts) - 3)
    /\ stmts[Len(stmts)] = ReturnStmt(stmts[Len(stmts) - 3].lhs, None)

FollowedTryExcept(body) == Len(body) > 1 /\ body[1].kind = "TryExcept"

RECURSIVE RaiseSites(_, _, _)
RaiseSites(stmts, active, direct) ==
    UNION { CASE stmts[i].kind = "RaiseStmt" ->
                     { [raised |-> stmts[i].expr.type.name, active |-> active, direct |-> direct] }
              [] stmts[i].kind = "IfStmt" ->
                     RaiseSites(stmts[i].if_stmts, active, {})
                     \cup RaiseSites(stmts[i].else_stmts, active, {})
              [] stmts[i].kind = "TryExcept" ->
                     RaiseSites(stmts[i].try_body,
                                active \cup {stmts[i].caught_exception_type.name},
                                direct \cup {stmts[i].caught_exception_type.name})
                     \cup RaiseSites(stmts[i].except_body, active, {})
              [] OTHER -> {}
            : i \in 1..Len(stmts) }

(* In the output a raise is where an exception object is constructed. *)
IsRaisedValue(stmt) ==
    /\ stmt.kind = "Assignment"
    /\ stmt.rhs.kind = "FunctionCall"
    /\ stmt.rhs.fun.name \in ExceptionNames

IsHandlerCall(stmt) ==
    stmt.kind = "Assignment" /\ stmt.rhs.kind = "FunctionCall" /\ stmt.rhs.fun.name \in ExceptFunNames

(* The raise is lowered to "return None, raised value" and nothing else. *)
PropagatedAt(stmts, i) ==
    /\ Len(stmts) >= i + 1
    /\ stmts[i + 1] = ReturnStmt(None, stmts[i].lhs)

(* e = raised value; result, error = handler(...); return result, error. *)
HandledAt(stmts, i) ==
    /\ Len(stmts) >= i + 3
    /\ stmts[i + 1].kind = "Assignment"
    /\ stmts[i + 1].rhs = stmts[i].lhs
    /\ stmts[i + 1].lhs.name = ObfuscationMap["e"]
    /\ IsHandlerCall(stmts[i + 2])
    /\ ~IsNone(stmts[i + 2].lhs2)
    /\ stmts[i + 3] = ReturnStmt(stmts[i + 2].lhs, stmts[i + 2].lhs2)

OutputG == OutputFunctions[CHOOSE i \in 1..Len(OutputFunctions) : OutputFunctions[i].name = "g"]

RaiseLowering(source_body, function_defn, sites) ==
    \A stmts \in StmtLists(function_defn.body) : \A i \in 1..Len(stmts) :
        IsRaisedValue(stmts[i]) =>
            \E site \in sites :
                /\ site.raised = stmts[i].rhs.fun.name
                /\ IF site.raised \in site.active THEN HandledAt(stmts, i) ELSE PropagatedAt(stmts, i)

(* C24: a raise whose type is the declared type of no handler active at    *)
(* the raise (every raise outside a try is one) is lowered to the single   *)
(* return of (no result, the raised value) with no handler call; a raise   *)
(* whose type is that of an active handler is lowered to one handler call  *)
(* whose result and error are returned.                                     *)
C24_RaiseDispatch ==
    Lowered /\ SourceBody \in ControlFlowBodies =>
        /\ RaiseLowering(module.function_defns[1].body, OutputG,
                         RaiseSites(module.function_defns[1].body, {}, {}))
        /\ RaiseLowering(SourceBody, OutputF, RaiseSites(SourceBody, {}, {}))

(* The same, for the raises that no if/else branch separates from the try  *)
(* statements around them.                                                  *)
C24_HoldsForDirectRaises ==
    Lowered /\ SourceBody \in ControlFlowBodies
            /\ (\A site \in RaiseSites(SourceBody, {}, {}) : site.active = site.direct) =>
        /\ RaiseLowering(module.function_defns[1].body, OutputG,
                         RaiseSites(module.function_defns[1].body, {}, {}))
        /\ RaiseLowering(SourceBody, OutputF, RaiseSites(SourceBody, {}, {}))

(***************************************************************************)
(* The handler stack of the writer that lowers the body of f.              *)
(***************************************************************************)
HasBodyOfF(ir3_module) ==
    /\ Len(ir3_module.function_defns) = 2
    /\ ir3_module.function_defns[1] = G_defn
    /\ "body" \in DOMAIN ir3_module.function_defns[2]
    /\ ~EndedRaising(type_to_ir2(ir3_module.function_defns[2].return_type))

(* stmt_writer = StmtWriter(writer, return_type), as f's lowering starts. *)
WriterOfF(ir3_module) ==
    StmtWriter(function_defn_to_ir2(G_defn, FunWriter(FirstId)),
               type_to_ir2(ir3_module.function_defns[2].return_type))

BodyOfF(ir3_module) == ir3_module.function_defns[2].body

HasTryExcept(stmts) == \E i \in 1..Len(stmts) : stmts[i].kind = "TryExcept"

LoweringOfFRaises(ir3_module) == EndedRaising(stmts_to_ir2(BodyOfF(ir3_module), WriterOfF(ir3_module)))

(* C25: when the lowering of a try/except statement has ended, by its      *)
(* return or by an error raised while its try body is lowered, the         *)
(* writer's handler stack is what it was before the statement.             *)
C25_HandlerStackRestored ==
    [][(pc = "ir3" /\ pc' # "ir3" /\ HasBodyOfF(module) /\ HasTryExcept(BodyOfF(module)))
           => try_except_contexts_after(BodyOfF(module), WriterOfF(module))
                  = WriterOfF(module).try_except_contexts]_vars

(* The same for the lowerings that end by their return. *)
C25_HandlerStackRestoredOnReturn ==
    [][(pc = "ir3" /\ pc' # "ir3" /\ HasBodyOfF(module) /\ HasTryExcept(BodyOfF(module))
                   /\ ~LoweringOfFRaises(module))
           => try_except_contexts_after(BodyOfF(module), WriterOfF(module))
                  = WriterOfF(module).try_except_contexts]_vars

(* C26: Pass B accepts every module Pass A produces: no module lowered by  *)
(* Pass A, among them those with a module-level assertion that uses         *)
(* and/or, a comprehension or a call that may fail, makes Pass B raise.     *)
C26_PassBAcceptsPassAOutput ==
    pc = "ir1_raised" => module \in Ir2UnrecognizedModules

(* What Pass B rejects of Pass A's output: the if/else that a module-level *)
(* and/or leaves among the toplevel elements, and a list of functions.     *)
C26_RejectsToplevelIfStmt ==
    pc = "ir1_raised" /\ module \notin Ir2UnrecognizedModules =>
        \/ /\ output = RaisedError(NotImplementedError, "Unexpected toplevel element")
           /\ module.body[fun_index - 1].kind = "IfStmt"
        \/ /\ output = RaisedError(NotImplementedError, "elem_kind")
           /\ module.body[fun_index - 1].kind = "FunctionDefn"

(***************************************************************************)
(* The C++ names of the parameters, as written out by hand.                *)
(***************************************************************************)
CxxNameOf(name) ==
    CASE name = <<"T">> -> "T"
      [] name = <<"U">> -> "U"
      [] name = <<"b">> -> "b"
      [] name = <<"m", "y", "_", "t">> -> "MyT"
      [] name = <<"M", "y", "_", "T">> -> "MyT"
      [] name = <<"i", "s", "_", "b">> -> "is_b"

HasPlainArgs(function_defn) ==
    \A i \in 1..Len(function_defn.args) : function_defn.args[i].type.kind \in {ExprKind_BOOL, ExprKind_TYPE}

(* template < bool name , typename Name , ... > *)
RECURSIVE PlainParamList(_)
PlainParamList(args) ==
    IF args = <<>> THEN <<>>
    ELSE <<IF Head(args).type.kind = ExprKind_BOOL THEN "bool" ELSE "typename", CxxNameOf(Head(args).name)>>
         \o (IF Tail(args) = <<>> THEN <<>> ELSE <<",">>)
         \o PlainParamList(Tail(args))

HeaderOf(args) == <<"template", "<">> \o PlainParamList(args) \o <<">", "struct">>

(* The text after the two include lines. *)
TextOfFunctions == SubSeq(output.text, 3, Len(output.text))

HasCollision(args) ==
    \E i, j \in 1..Len(args) : args[i].name # args[j].name /\ CxxNameOf(args[i].name) = CxxNameOf(args[j].name)

(* C27: the C++ name of a parameter of type kind is its source name in     *)
(* title case with the underscores removed, that of a boolean parameter is *)
(* its source name; my_t and My_T both become MyT, and a parameter list    *)
(* that holds both is emitted with the name twice and without an error.    *)
C27_NameCollisionsAreEmitted ==
    /\ (FunctionsEmitted /\ Len(module.function_defns) = 1
            /\ module.function_defns[1].main_definition # None
            /\ HasPlainArgs(module.function_defns[1])) =>
           SubSeq(TextOfFunctions, 1, Len(HeaderOf(module.function_defns[1].args)))
               = HeaderOf(module.function_defns[1].args)
    /\ module.function_defns[1].args \in CollidingArgLists => pc \notin {"rejected", "raised"}

(* C27 witness: f(my_t, My_T) is emitted as template <typename MyT,         *)
(* typename MyT> struct F.                                                  *)
C27_Witness ==
    /\ pc = "returned"
    /\ module.function_defns[1].args = <<Arg_my_t, Arg_My_T>>
    /\ HasCollision(module.function_defns[1].args)
    /\ SubSeq(TextOfFunctions, 1, 10)
           = <<"template", "<", "typename", "MyT", ",", "typename", "MyT", ">", "struct", "F">>

(***************************************************************************)
(* The order of the function definitions of the output.                    *)
(***************************************************************************)
IsErrorDescription == "The is_error (meta)function"

IsSynthesized(function_defn) ==
    function_defn.description \in HelperDescriptions \cup {IsErrorDescription}

(* The names of the functions the expression calls. *)
CalledByExpr(expr) ==
    CASE expr.kind = "FunctionCall" -> {expr.fun.name}
      [] expr.kind = "MatchExpr" -> { expr.match_cases[i].expr.fun.name : i \in 1..Len(expr.match_cases) }
      [] expr.kind = "ListComprehensionExpr" -> {expr.result_elem_expr.fun.name}
      [] OTHER -> {}

CalledBy(function_defn) ==
    UNION { CalledByExpr(stmt.rhs) :
                stmt \in { t \in UNION { Range(l) : l \in StmtLists(function_defn.body) } :
                               t.kind = "Assignment" } }

PositionOf(name) == CHOOSE i \in 1..Len(OutputFunctions) : OutputFunctions[i].name = name

(* C29: in the output of Pass A every synthesized function stands before   *)
(* every function whose body calls it; is_error is the first function      *)
(* definition, the continuation of a try/except stands before its handler  *)
(* and both stand before the function that holds the try/except.           *)
C29_SynthesizedFunctionsPrecedeCallers ==
    Lowered =>
        /\ OutputFunctions[1].description = IsErrorDescription
        /\ \A i, j \in 1..Len(OutputFunctions) :
               IsSynthesized(OutputFunctions[j]) /\ OutputFunctions[j].name \in CalledBy(OutputFunctions[i])
                   => j < i
        /\ \A k \in 1..Len(OutputFunctions) :
               OutputFunctions[k].description = ThenFunDescription =>
                   /\ k + 1 < PositionOf("f")
                   /\ OutputFunctions[k + 1].description = ExceptFunDescription
        /\ \A k \in 1..Len(OutputFunctions) :
               OutputFunctions[k].description \in HelperDescriptions => k < PositionOf("f")

(* C29 witness: a try/except with a continuation that its handler calls:   *)
(* is_error, g, the continuation, the handler, f.                          *)
C29_Witness ==
    /\ Lowered
    /\ Len(OutputFunctions) = 5
    /\ OutputFunctions[3].description = ThenFunDescription
    /\ OutputFunctions[4].description = ExceptFunDescription
    /\ OutputFunctions[3].name \in CalledBy(OutputFunctions[4])
    /\ OutputFunctions[3].name \in CalledBy(OutputFunctions[5])
    /\ OutputFunctions[4].name \in CalledBy(OutputFunctions[5])
    /\ OutputFunctions[1].name \in CalledBy(OutputFunctions[5])
    /\ OutputFunctions[5].name = "f"

(***************************************************************************)
(* The front end (sema.py): the typed_ast tree of a module is analysed     *)
(* into ir function definitions.  AST nodes are records with the fields    *)
(* of their typed_ast class; names are loaded (ctx Load) everywhere.  A    *)
(* raised exception is the RaisedError record of its class.                *)
(***************************************************************************)
ast_Name(id) == [kind |-> "Name", id |-> id]

ast_NameConstant(value) == [kind |-> "NameConstant", value |-> value]

ast_Call(func, args) == [kind |-> "Call", func |-> func, args |-> args]

ast_arg(arg, annotation) == [kind |-> "arg", arg |-> arg, annotation |-> annotation]

ast_Return(value) == [kind |-> "Return", value |-> value]

ast_Assert(test) == [kind |-> "Assert", test |-> test]

ast_Pass == [kind |-> "Pass"]

ast_FunctionDef(name, args, body) == [kind |-> "FunctionDef", name |-> name, args |-> args, body |-> body]

ast_ImportFrom(module_name, names) == [kind |-> "ImportFrom", module |-> module_name, names |-> names]

ast_Module(body) == [kind |-> "ast.Module", body |-> body]

ir_Literal(value, type) == [kind |-> "ir.Literal", type |-> type, value |-> value]

ir_VarReference(type, name) == [kind |-> "ir.VarReference", type |-> type, name |-> name]

ir_FunctionCall(fun_expr, args) ==
    [kind |-> "ir.FunctionCall", type |-> fun_expr.type.returns, fun_expr |-> fun_expr, args |-> args]

ir_StaticAssert(expr, message) == [kind |-> "ir.StaticAssert", expr |-> expr, message |-> message]

ir_FunctionArgDecl(type, name) == [kind |-> "ir.FunctionArgDecl", type |-> type, name |-> name]

ir_FunctionDefn(asserts, expression, name, type, args) ==
    [kind |-> "ir.FunctionDefn", asserts |-> asserts, expression |-> expression, name |-> name,
     type |-> type, args |-> args]

ir_Module(function_defns) == [kind |-> "ir.Module", function_defns |-> function_defns]

CompilationError(message) == RaisedError("CompilationError", message)

Symbol(name, type) == [name |-> name, type |-> type]

(* SymbolTable.__init__ *)
SymbolTable(parent) == [kind |-> "SymbolTable", symbols_by_name |-> <<>>, parent |-> parent]

NoSymbol == [symbol |-> None, definition |-> None]

RECURSIVE get_symbol_definition(_, _)
get_symbol_definition(table, name) ==
    IF name \in DOMAIN table.symbols_by_name THEN table.symbols_by_name[name]
    ELSE IF table.parent # None THEN get_symbol_definition(table.parent, name)
    ELSE NoSymbol

(* self.symbols_by_name[name] = (Symbol(name, type), definition_ast_node) *)
set_symbol(table, name, type, definition_ast_node) ==
    [table EXCEPT !.symbols_by_name =
        [n \in DOMAIN @ \cup {name} |->
            IF n = name THEN [symbol |-> Symbol(name, type), definition |-> definition_ast_node] ELSE @[n]]]

(* The error of add_symbol: its message reads definition_ast_node.name. *)
already_defined_error(definition_ast_node, message) ==
    IF "name" \in DOMAIN definition_ast_node THEN CompilationError(message)
    ELSE RaisedError(AttributeError, "name")

(* Every name defined is redefined, whatever the type. *)
add_symbol_overwriting(table, name, type, definition_ast_node, allow_redefinition_with_same_type) ==
    set_symbol(table, name, type, definition_ast_node)

add_symbol(table, name, type, definition_ast_node, allow_redefinition_with_same_type) ==
    IF name \in DOMAIN table.symbols_by_name /\ ~allow_redefinition_with_same_type
    THEN already_defined_error(definition_ast_node, "was already defined in this scope.")
    ELSE IF name \in DOMAIN table.symbols_by_name /\ table.symbols_by_name[name].symbol.type # type
    THEN already_defined_error(definition_ast_node, "was already defined in this scope, with another type")
    ELSE set_symbol(table, name, type, definition_ast_node)

type_declaration_ast_to_ir_expression_type(ast_node) ==
    IF ast_node.kind = "Name"
    THEN (IF ast_node.id = "bool" THEN types_BoolType
          ELSE IF ast_node.id = "Type" THEN types_TypeType
          ELSE CompilationError("Unsupported type constant"))
    ELSE CompilationError("Unsupported type declaration.")

name_constant_ast_to_ir(ast_node) ==
    IF ast_node.value \in BOOLEAN THEN ir_Literal(ast_node.value, types_BoolType)
    ELSE CompilationError("NameConstant not supported")

(* Every name is looked up in the module-level table only. *)
var_reference_ast_to_ir_in_module_scope(ast_node, table) ==
    LET global == IF table.parent # None THEN table.parent ELSE table
    IN  IF get_symbol_definition(global, ast_node.id) = NoSymbol
        THEN CompilationError("Reference to undefined variable/function")
        ELSE ir_VarReference(get_symbol_definition(global, ast_node.id).symbol.type,
                             get_symbol_definition(global, ast_node.id).symbol.name)

var_reference_ast_to_ir(ast_node, table) ==
    IF get_symbol_definition(table, ast_node.id) = NoSymbol
    THEN CompilationError("Reference to undefined variable/function")
    ELSE ir_VarReference(get_symbol_definition(table, ast_node.id).symbol.type,
                         get_symbol_definition(table, ast_node.id).symbol.name)

(* Of the node classes of expression_ast_to_ir the modules analysed hold   *)
(* NameConstant, Call (of a name other than Type) and Name.                *)
RECURSIVE expression_ast_to_ir(_, _)
function_call_ast_to_ir(ast_node, table) ==
    Bind(expression_ast_to_ir(ast_node.func, table), LAMBDA fun_expr :
        IF "argtypes" \notin DOMAIN fun_expr.type
        THEN CompilationError("Attempting to call an object that is not a function.")
        ELSE LET args == [i \in 1..Len(ast_node.args) |-> expression_ast_to_ir(ast_node.args[i], table)]
             IN  IF HasRaisedIn(args) THEN FirstRaised(args)
                 ELSE IF Len(args) # Len(fun_expr.type.argtypes)
                 THEN CompilationError("Argument number mismatch in function call")
                 ELSE IF \E i \in 1..Len(args) : args[i].type # fun_expr.type.argtypes[i]
                 THEN CompilationError("Type mismatch for argument")
                 ELSE ir_FunctionCall(fun_expr, args))

expression_ast_to_ir(ast_node, table) ==
    CASE ast_node.kind = "NameConstant" -> name_constant_ast_to_ir(ast_node)
      [] ast_node.kind = "Call" -> function_call_ast_to_ir(ast_node, table)
      [] ast_node.kind = "Name" -> var_reference_ast_to_ir(ast_node, table)
      [] OTHER -> CompilationError("Unsupported expression type.")

(* assert expr.type.kind == types.ExprKind.BOOL is a Python assertion. *)
assert_ast_to_ir(ast_node, table) ==
    Bind(expression_ast_to_ir(ast_node.test, table), LAMBDA expr :
        IF expr.type.kind # ExprKind_BOOL THEN RaisedError(AssertionError, "expr.type.kind")
        ELSE ir_StaticAssert(expr, "Assertion error"))

(* The loop over ast_node.args.args: [args, table] for the arguments done. *)
RECURSIVE function_args_ast_to_ir(_, _, _)
function_args_ast_to_ir(arg_nodes, args, table) ==
    IF arg_nodes = <<>> THEN [args |-> args, table |-> table]
    ELSE IF Head(arg_nodes).annotation = None
    THEN CompilationError("All function arguments must have a type annotation.")
    ELSE Bind(type_declaration_ast_to_ir_expression_type(Head(arg_nodes).annotation), LAMBDA arg_type :
         Bind(add_symbol(table, Head(arg_nodes).arg, arg_type, Head(arg_nodes), FALSE), LAMBDA added :
             function_args_ast_to_ir(Tail(arg_nodes),
                                     Append(args, ir_FunctionArgDecl(arg_type, Head(arg_nodes).arg)),
                                     added)))

(* function_body_compilation_context.symbol_table once the arguments are   *)
(* in it: the table the body is analysed with.                             *)
function_body_symbol_table(ast_node, symbol_table_of_module) ==
    Bind(function_args_ast_to_ir(ast_node.args, <<>>, SymbolTable(symbol_table_of_module)), LAMBDA a : a.table)

function_def_ast_to_ir(ast_node, symbol_table_of_module) ==
    Bind(function_args_ast_to_ir(ast_node.args, <<>>, SymbolTable(symbol_table_of_module)), LAMBDA a :
        IF a.args = <<>> THEN CompilationError("Functions with no arguments are not supported.")
        ELSE LET asserts == [i \in 1..(Len(ast_node.body) - 1) |->
                                IF ast_node.body[i].kind # "Assert"
                                THEN CompilationError("All statements in a function (except the last) must be assertions.")
                                ELSE assert_ast_to_ir(ast_node.body[i], a.table)]
                 last == ast_node.body[Len(ast_node.body)]
             IN  IF HasRaisedIn(asserts) THEN FirstRaised(asserts)
                 ELSE IF last.kind # "Return"
                 THEN CompilationError("The last statement in a function must be a Return statement.")
                 ELSE IF last.value = None
                 THEN CompilationError("Return statements with no returned expression are not supported.")
                 ELSE Bind(expression_ast_to_ir(last.value, a.table), LAMBDA expression :
                          ir_FunctionDefn(asserts, expression, ast_node.name,
                                          types_FunctionType([i \in 1..Len(a.args) |-> a.args[i].type],
                                                             expression.type),
                                          a.args)))

(* The checks of an import statement: TRUE when it is let through. *)
import_from_is_supported(ast_node) ==
    IF ast_node.module = "tmppy" THEN ast_node.names = <<"Type">>
    ELSE IF ast_node.module = "typing" THEN Len(ast_node.names) = 1 /\ ast_node.names[1] \in {"List", "Callable"}
    ELSE TRUE

(***************************************************************************)
(* The modules analysed: one or two functions f and g of boolean and type  *)
(* parameters, returning a parameter, a function or a call; parameter      *)
(* lists that repeat a name and that name a parameter as a function.       *)
(***************************************************************************)
BoolArg(name) == ast_arg(name, ast_Name("bool"))

TypeArg(name) == ast_arg(name, ast_Name("Type"))

SemaArgLists ==
    { <<BoolArg("x")>>, <<BoolArg("x"), TypeArg("y")>>, <<BoolArg("x"), BoolArg("x")>>,
      <<BoolArg("x"), TypeArg("x")>>, <<TypeArg("f")>> }

SemaReturnValues ==
    { ast_Name("x"), ast_Name("f"), ast_Name("g"), ast_NameConstant(TRUE),
      ast_Call(ast_Name("f"), <<ast_Name("x")>>), ast_Call(ast_Name("g"), <<ast_Name("x")>>) }

SemaFunctionDefs ==
    { ast_FunctionDef(name, args, <<ast_Return(value)>>) :
          name \in {"f", "g"}, args \in SemaArgLists, value \in SemaReturnValues }

SemaFirstFunctionDefs ==
    { ast_FunctionDef(name, args, <<ast_Return(value)>>) :
          name \in {"f", "g"}, args \in { <<BoolArg("x")>>, <<BoolArg("x"), TypeArg("y")>> },
          value \in { ast_Name("x"), ast_NameConstant(TRUE) } }

SemaSpecialBodies ==
    { <<ast_ImportFrom("tmppy", <<"Type">>), ast_FunctionDef("f", <<TypeArg("x")>>, <<ast_Return(ast_Name("x"))>>)>>,
      <<ast_ImportFrom("typing", <<"List">>), ast_ImportFrom("tmppy", <<"Type", "List">>)>>,
      <<ast_ImportFrom("os", <<"path">>), ast_Pass>>,
      <<ast_FunctionDef("f", <<>>, <<ast_Return(ast_NameConstant(TRUE))>>)>>,
      <<ast_FunctionDef("f", <<ast_arg("x", None)>>, <<ast_Return(ast_Name("x"))>>)>>,
      <<ast_FunctionDef("f", <<ast_arg("x", ast_Name("int"))>>, <<ast_Return(ast_Name("x"))>>)>>,
      <<ast_FunctionDef("f", <<BoolArg("x")>>, <<ast_Assert(ast_Name("x")), ast_Return(ast_Name("x"))>>)>>,
      <<ast_FunctionDef("f", <<TypeArg("x")>>, <<ast_Assert(ast_Name("x")), ast_Return(ast_Name("x"))>>)>>,
      <<ast_FunctionDef("f", <<BoolArg("x")>>, <<ast_Pass, ast_Return(ast_Name("x"))>>)>>,
      <<ast_FunctionDef("f", <<BoolArg("x")>>, <<ast_Assert(ast_Name("x"))>>)>>,
      <<ast_FunctionDef("f", <<BoolArg("x")>>, <<ast_Return(None)>>)>>,
      <<ast_FunctionDef("f", <<BoolArg("x")>>, <<ast_Return(ast_Pass)>>)>>,
      <<ast_FunctionDef("f", <<BoolArg("x")>>, <<ast_Return(ast_Name("x"))>>),
        ast_FunctionDef("g", <<TypeArg("x")>>, <<ast_Return(ast_Call(ast_Name("f"), <<ast_Name("x")>>))>>)>>,
      <<ast_FunctionDef("f", <<BoolArg("x")>>, <<ast_Return(ast_Name("x"))>>),
        ast_FunctionDef("g", <<BoolArg("x")>>,
                        <<ast_Return(ast_Call(ast_Name("f"), <<ast_Name("x"), ast_Name("x")>>))>>)>> }

SemaModules ==
    { ast_Module(<<d>>) : d \in SemaFunctionDefs }
    \cup { ast_Module(<<d1, d2>>) : d1 \in SemaFirstFunctionDefs, d2 \in SemaFunctionDefs }
    \cup { ast_Module(b) : b \in SemaSpecialBodies }

(***************************************************************************)
(* module_ast_to_ir as a state machine: one step analyses a function       *)
(* definition, the next adds its name to the module-level symbol table.    *)
(***************************************************************************)
SemaInit ==
    /\ module \in SemaModules
    /\ pc = "module_body"
    /\ fun_index = 1
    /\ fun_writer = None
    /\ toplevel_stmts = <<>>
    /\ output = None
    /\ symbol_table = SymbolTable(None)
    /\ ir_function_defns = <<>>

AstNode == module.body[fun_index]

(* sema.py 102-104 *)
FunctionDefAstToIr ==
    /\ pc = "module_body"
    /\ fun_index <= Len(module.body)
    /\ AstNode.kind = "FunctionDef"
    /\ IF IsRaised(function_def_ast_to_ir(AstNode, symbol_table))
       THEN /\ output' = function_def_ast_to_ir(AstNode, symbol_table)
            /\ pc' = "sema_raised"
            /\ UNCHANGED ir_function_defns
       ELSE /\ ir_function_defns' = Append(ir_function_defns, function_def_ast_to_ir(AstNode, symbol_table))
            /\ pc' = "add_symbol"
            /\ UNCHANGED output
    /\ UNCHANGED <<module, fun_index, fun_writer, toplevel_stmts, symbol_table>>

(* sema.py 105-110 *)
AddFunctionSymbol ==
    /\ pc = "add_symbol"
    /\ LET added == add_symbol(symbol_table, AstNode.name, Last(ir_function_defns).type, AstNode, FALSE)
       IN  IF EndedRaising(added)
           THEN /\ output' = added
                /\ pc' = "sema_raised"
                /\ UNCHANGED <<symbol_table, fun_index>>
           ELSE /\ symbol_table' = added
                /\ fun_index' = fun_index + 1
                /\ pc' = "module_body"
                /\ UNCHANGED output
    /\ UNCHANGED <<module, fun_writer, toplevel_stmts, ir_function_defns>>

(* sema.py 111-123 *)
ImportFromAstToIr ==
    /\ pc = "module_body"
    /\ fun_index <= Len(module.body)
    /\ AstNode.kind = "ImportFrom"
    /\ IF import_from_is_supported(AstNode)
       THEN /\ fun_index' = fun_index + 1
            /\ UNCHANGED <<pc, output>>
       ELSE /\ output' = CompilationError("The only supported import")
            /\ pc' = "sema_raised"
            /\ UNCHANGED fun_index
    /\ UNCHANGED <<module, fun_writer, toplevel_stmts, symbol_table, ir_function_defns>>

(* sema.py 124-125 *)
UnsupportedAstNode ==
    /\ pc = "module_body"
    /\ fun_index <= Len(module.body)
    /\ AstNode.kind \notin {"FunctionDef", "ImportFrom"}
    /\ output' = CompilationError("Unsupported AST node in MypyFile")
    /\ pc' = "sema_raised"
    /\ UNCHANGED <<module, fun_index, fun_writer, toplevel_stmts, symbol_table, ir_function_defns>>

(* sema.py 126 *)
ReturnIrModule ==
    /\ pc = "module_body"
    /\ fun_index > Len(module.body)
    /\ output' = ir_Module(ir_function_defns)
    /\ pc' = "sema_done"
    /\ UNCHANGED <<module, fun_index, fun_writer, toplevel_stmts, symbol_table, ir_function_defns>>

SemaNext ==
    \/ FunctionDefAstToIr
    \/ AddFunctionSymbol
    \/ ImportFromAstToIr
    \/ UnsupportedAstNode
    \/ ReturnIrModule

SpecSema == SemaInit /\ [][SemaNext]_vars

SemaTypeOK == pc \in {"module_body", "add_symbol", "sema_raised", "sema_done"}

(***************************************************************************)
(* C28: the adds of a symbol the front end makes                           *)
(***************************************************************************)
IsRedefinition(table, name, type, allow_redefinition_with_same_type) ==
    /\ name \in DOMAIN table.symbols_by_name
    /\ \/ ~allow_redefinition_with_same_type
       \/ table.symbols_by_name[name].symbol.type # type

(* What C28 says of one call of add_symbol, whose result is a raised       *)
(* error or the table after the add.                                       *)
AddSymbolAsSpecified(table, name, type, definition_ast_node, allow_redefinition_with_same_type) ==
    LET added == add_symbol(table, name, type, definition_ast_node, allow_redefinition_with_same_type)
    IN  /\ EndedRaising(added) <=> IsRedefinition(table, name, type, allow_redefinition_with_same_type)
        /\ EndedRaising(added) => added.error = "CompilationError"
        /\ ~EndedRaising(added) =>
              /\ get_symbol_definition(added, name).symbol = Symbol(name, type)
              /\ added.parent = table.parent

(* The table of the function's scope when its k-th argument is added. *)
TableBeforeArg(k) == function_args_ast_to_ir(SubSeq(AstNode.args, 1, k - 1), <<>>, SymbolTable(symbol_table))

ArgIsAdded(k) ==
    /\ pc = "module_body"
    /\ fun_index <= Len(module.body)
    /\ AstNode.kind = "FunctionDef"
    /\ k \in 1..Len(AstNode.args)
    /\ ~EndedRaising(TableBeforeArg(k))
    /\ AstNode.args[k].annotation # None
    /\ ~EndedRaising(type_declaration_ast_to_ir_expression_type(AstNode.args[k].annotation))

MaxArgs == 2

(* C28: every add of a symbol the front end makes, of a function argument  *)
(* to the function's scope or of a function to the module's scope, is      *)
(* rejected exactly when the name is already defined in that scope (with   *)
(* a different type, or with any type when redefinition is not allowed),   *)
(* the rejection is a compilation error, a name defined only in the parent *)
(* scope is not rejected, and after the add a lookup from the scope        *)
(* returns the symbol added.                                               *)
C28_AddSymbolRejectsWithCompilationError ==
    /\ \A k \in 1..MaxArgs : \A allow \in BOOLEAN :
          ArgIsAdded(k) =>
              AddSymbolAsSpecified(TableBeforeArg(k).table, AstNode.args[k].arg,
                                   type_declaration_ast_to_ir_expression_type(AstNode.args[k].annotation),
                                   AstNode.args[k], allow)
    /\ \A allow \in BOOLEAN :
          pc = "add_symbol" =>
              AddSymbolAsSpecified(symbol_table, AstNode.name, Last(ir_function_defns).type, AstNode, allow)

(* The same holds of the adds of a function to the module's scope, whose   *)
(* definition node has a name; there a rejected add also leaves the        *)
(* module's symbol table as it was.                                        *)
C28_HoldsForFunctionDefs ==
    [][pc = "add_symbol" =>
          /\ \A allow \in BOOLEAN :
                AddSymbolAsSpecified(symbol_table, AstNode.name, Last(ir_function_defns).type, AstNode, allow)
          /\ pc' = "sema_raised" =>
                /\ symbol_table' = symbol_table
                /\ output'.error = "CompilationError"
                /\ AstNode.name \in DOMAIN symbol_table.symbols_by_name]_vars

(* A function is added whose name the module's scope already has. *)
C28_FunctionRedefined ==
    /\ pc = "sema_raised"
    /\ fun_index = 2
    /\ Len(ir_function_defns) = 2
    /\ module.body[1].name = module.body[2].name

(* A function argument is added whose name is defined only in the parent. *)
C28_ArgShadowsFunction ==
    /\ ArgIsAdded(1)
    /\ AstNode.args[1].arg \in DOMAIN symbol_table.symbols_by_name

(***************************************************************************)
(* C30: the symbols visible while a function is analysed                   *)
(***************************************************************************)
SemaNames == {"x", "y", "f", "g", "bool", "Type"}

AtFunctionDef ==
    /\ pc = "module_body"
    /\ fun_index <= Len(module.body)
    /\ AstNode.kind = "FunctionDef"

(* The functions defined before the node at fun_index. *)
EarlierFunctions ==
    { module.body[i].name : i \in { j \in 1..(fun_index - 1) : module.body[j].kind = "FunctionDef" } }

NamesOfArgs == { AstNode.args[k].arg : k \in 1..Len(AstNode.args) }

BodyTable == function_body_symbol_table(AstNode, symbol_table)

IsVisible(table, name) == get_symbol_definition(table, name) # NoSymbol

(* The function is `def name(args): return id`, its arguments accepted. *)
ReturnsTheName(id) ==
    /\ AtFunctionDef
    /\ ~EndedRaising(BodyTable)
    /\ AstNode.args # <<>>
    /\ AstNode.body = <<ast_Return(ast_Name(id))>>

UndefinedReference == CompilationError("Reference to undefined variable/function")

(* C30: when a function definition is analysed the module-level table      *)
(* holds the functions defined earlier and nothing else, and the table the *)
(* body is analysed with shows exactly the function's arguments and those  *)
(* functions; a returned name that is an argument or an earlier function   *)
(* resolves to it, and any other, the function itself and the functions    *)
(* defined later among them, is reported as a reference to an undefined    *)
(* name;                                                                   *)
(* the analysis leaves the module-level table alone, and the add that      *)
(* follows it gives that table exactly one more symbol, the function's     *)
(* name.                                                                   *)
C30_OnlyArgsAndEarlierFunctionsVisible ==
    [][/\ AtFunctionDef =>
             /\ \A n \in SemaNames : n \in DOMAIN symbol_table.symbols_by_name <=> n \in EarlierFunctions
             /\ symbol_table.parent = None
             /\ symbol_table' = symbol_table
             /\ ~EndedRaising(BodyTable) =>
                   \A n \in SemaNames : IsVisible(BodyTable, n) <=> n \in NamesOfArgs \cup EarlierFunctions
             /\ \A n \in SemaNames :
                   ReturnsTheName(n) =>
                       IF n \in NamesOfArgs \cup EarlierFunctions
                       THEN /\ pc' = "add_symbol"
                            /\ Last(ir_function_defns').expression.kind = "ir.VarReference"
                            /\ Last(ir_function_defns').expression.name = n
                            /\ n \in NamesOfArgs =>
                                  \E k \in 1..Len(AstNode.args) :
                                      /\ AstNode.args[k].arg = n
                                      /\ Last(ir_function_defns').expression.type = Last(ir_function_defns').args[k].type
                       ELSE /\ pc' = "sema_raised"
                            /\ output' = UndefinedReference
       /\ (pc = "add_symbol" /\ pc' = "module_body") =>
             /\ AstNode.name \notin DOMAIN symbol_table.symbols_by_name
             /\ \A n \in SemaNames :
                   n \in DOMAIN symbol_table'.symbols_by_name <=>
                       (n = AstNode.name \/ n \in DOMAIN symbol_table.symbols_by_name)
             /\ \A n \in DOMAIN symbol_table.symbols_by_name :
                   symbol_table'.symbols_by_name[n] = symbol_table.symbols_by_name[n]
             /\ symbol_table'.symbols_by_name[AstNode.name].symbol = Symbol(AstNode.name, Last(ir_function_defns).type)
             /\ symbol_table'.parent = None]_vars

(* The second function g of a module returns g: f has been analysed, with  *)
(* its argument x, and the module-level table holds f alone; the           *)
(* reference to g ended the analysis.                                      *)
C30_Witness ==
    /\ pc = "sema_raised"
    /\ output = UndefinedReference
    /\ fun_index = 2
    /\ module.body[1].name = "f"
    /\ module.body[2].name = "g"
    /\ module.body[2].body = <<ast_Return(ast_Name("g"))>>
    /\ module.body[2].args = <<BoolArg("x"), TypeArg("y")>>
    /\ Len(ir_function_defns) = 1
    /\ ir_function_defns[1].args[1].name = "x"
    /\ IsVisible(symbol_table, "f")
    /\ ~IsVisible(symbol_table, "x")
    /\ ~IsVisible(symbol_table, "g")

====
